---- MODULE Spec2Model ----
(***************************************************************************)
(* Verification model of the react-three-test mesh generators:             *)
(*   - Planet (icosphere with distance LOD): getK, getVertexIndex,         *)
(*     processSubFace;                                                     *)
(*   - createStitchedGeometry (quad grid stitcher of StitchedFace.tsx);    *)
(*   - createClipmapGeometry (GeometryClipmap);                            *)
(*   - StitchedFace of the CubicSpheroid file (visited-array tiling).      *)
(* Real numbers are kept exact as integer fractions.  A point of the unit  *)
(* sphere is named by the slerp expression that produces it (end points    *)
(* and exact parameter), so two expressions that denote the same point     *)
(* have the same name.                                                     *)
(***************************************************************************)
EXTENDS Integers, Sequences, FiniteSets, TLC

VARIABLES
    pc,         \* "input" before the call under study has run, then "done"
    props,      \* Planet props of the current pass / getK evaluation
    lodV,       \* getK: the sample point v (a unit vector)
    lodK,       \* getK: value returned for props.targetPosition
    lodAltT,    \* getK: a second target position, other props equal
    lodAltK,    \* getK: value returned for the second target
    lodHK,      \* getK of the height-bias Planet for the same v and props
    vertices,   \* Planet pass: vertex buffer (one entry per pushed vertex)
    vertexMap,  \* Planet pass: key -> index
    indices,    \* Planet pass: flat index buffer
    kAt,        \* Planet pass: getK values of the points evaluated so far
    patches,    \* Planet pass: locals of the processSubFace calls made
    passFaces,  \* Planet pass: the icosahedron faces the bounded pass visits
    quad,       \* createStitchedGeometry / createClipmapGeometry call
    tile,       \* StitchedFace (CubicSpheroid file) call
    heightMapUrl,   \* Planet prop heightMapUrl
    heightMapData,  \* Planet state heightMapData
    heightMapLoads, \* loadHeightMap promises not yet resolved (their urls)
    interned,   \* getVertexIndex calls of the current pass: <<v, index>>
    lodField,   \* getK values found so far, per props tuple and point
    passLog,    \* the buffers each completed pass handed to the geometry
    sample,     \* sampleHeight call: arguments, pixel read and result
    home        \* Home and DraggableCapsule: state, refs and pending work

vars == <<pc, props, lodV, lodK, lodAltT, lodAltK, lodHK,
          vertices, vertexMap, indices, kAt, patches, passFaces,
          quad, tile, heightMapUrl, heightMapData, heightMapLoads,
          interned, lodField, passLog, sample, home>>

hmVars == <<heightMapUrl, heightMapData, heightMapLoads>>
regenVars == <<lodField, passLog>>
auxVars == <<sample, home>>
lodVars == <<lodV, lodK, lodAltT, lodAltK, lodHK>>
passVars == <<vertices, vertexMap, indices, kAt, patches, passFaces>>

----------------------------------------------------------------------------
(* Bounds of the exploration *)

MaxSteps == 4        \* steps ranges over 1..MaxSteps
MaxK == 3            \* finest resolution of the general patch configuration
DistDen == 4         \* patch LOD distances are multiples of maxDist/DistDen
MaxHalfSegments == 4 \* quad grids have segments = 2*h, h in 2..MaxHalfSegments

NoTarget == <<>>     \* targetPosition absent
NoUrl == ""          \* heightMapUrl absent
Null == [width |-> 0, height |-> 0, data |-> <<>>]  \* heightMapData null

----------------------------------------------------------------------------
(* Arithmetic helpers *)

Min(a, b) == IF a < b THEN a ELSE b
Max(a, b) == IF a > b THEN a ELSE b
Abs(a) == IF a < 0 THEN -a ELSE a

RECURSIVE Pow(_, _)
Pow(b, e) == IF e = 0 THEN 1 ELSE b * Pow(b, e - 1)

RECURSIVE GCD(_, _)
GCD(a, b) == IF b = 0 THEN a ELSE GCD(b, a % b)

\* Math.round of the fraction n/d (d > 0): nearest integer, halves upward
MathRound(n, d) == (2 * n + d) \div (2 * d)

\* Math.floor of the fraction n/d (d > 0)
MathFloor(n, d) == n \div d

\* statement sequencing: the value x is computed first, then e
Then(x, e) == IF x = x THEN e ELSE e

IsSquare(n) == \E s \in 0..400 : s * s = n
ISqrt(n) == CHOOSE s \in 0..400 : s * s = n

----------------------------------------------------------------------------
(* Values of the variables a specification does not use *)

IdlePass ==
    /\ vertices = <<>>
    /\ vertexMap = <<>>
    /\ indices = <<>>
    /\ kAt = <<>>
    /\ patches = <<>>
    /\ passFaces = <<>>

IdleLod ==
    /\ lodV = <<0, 1, 0>>
    /\ lodK = 0
    /\ lodAltT = NoTarget
    /\ lodAltK = 0
    /\ lodHK = 0

IdleQuad == quad = [kind |-> "none"]
IdleTile == tile = [kind |-> "none"]

IdleHeight ==
    /\ heightMapUrl = NoUrl
    /\ heightMapData = Null
    /\ heightMapLoads = {}

IdleSample == sample = [kind |-> "none"]
IdleHome == home = [kind |-> "none"]

IdleRegen ==
    /\ lodField = <<>>
    /\ passLog = <<>>

----------------------------------------------------------------------------
(* LOD resolver: getK of the two Planet components *)

Radii == {1, 10}
Positions == {<<0, 0, 0>>, <<0, 3, 0>>}
SamplePoints == {<<0, 1, 0>>, <<0, -1, 0>>, <<1, 0, 0>>}
Targets == {<<0, 10, 0>>, <<0, 5, 0>>, <<0, 0, 0>>, <<0, -10, 0>>,
            <<0, 34, 0>>, <<6, 18, 0>>}
DetailValues == {0, 1, 4, 12}
Gammas == {<<1, 2>>, <<1, 1>>, <<2, 1>>}     \* stepGamma = p/q

DefaultProps ==
    [radius |-> 1, minDetail |-> 0, maxDetail |-> 20, steps |-> 2,
     stepGamma |-> <<1, 1>>, position |-> <<0, 0, 0>>,
     targetPosition |-> NoTarget]

\* v.clone().multiplyScalar(radius).add(planetCenter)
worldV(v, P) ==
    <<v[1] * P.radius + P.position[1],
      v[2] * P.radius + P.position[2],
      v[3] * P.radius + P.position[3]>>

\* targetPosition || new THREE.Vector3(0, radius, 0)
target(P) ==
    IF P.targetPosition = NoTarget THEN <<0, P.radius, 0>>
    ELSE P.targetPosition

distanceSq(a, b) ==
    (a[1] - b[1]) * (a[1] - b[1]) + (a[2] - b[2]) * (a[2] - b[2])
        + (a[3] - b[3]) * (a[3] - b[3])

\* the evaluation is exact when the distance is an integer
ExactDist(v, P) == IsSquare(distanceSq(worldV(v, P), target(P)))

dist(v, P) == ISqrt(distanceSq(worldV(v, P), target(P)))

\* t_dist = max(0, min(1, dist / maxDist)) as a numerator over dd
t_dist(dn, dd) == Max(0, Min(dd, dn))

\* 1 - t_dist as a numerator over dd (mutant: detail grows with distance)
closenessFarther(dn, dd) == t_dist(dn, dd)
closeness(dn, dd) == dd - t_dist(dn, dd)

\* Math.floor(Math.pow(a/dd, p/q) * steps): the largest j with
\* (j/steps)^q <= (a/dd)^p
floorDetail(P, a, dd) ==
    LET p == P.stepGamma[1]
        q == P.stepGamma[2]
        ok(j) == Pow(j, q) * Pow(dd, p) <= Pow(P.steps, q) * Pow(a, p)
    IN  CHOOSE j \in 0..P.steps :
            ok(j) /\ \A i \in 0..P.steps : ok(i) => i <= j

\* (mutant: the level index is not capped at steps - 1)
levelIndexUncapped(P, a, dd) == floorDetail(P, a, dd)
levelIndex(P, a, dd) == Min(P.steps - 1, floorDetail(P, a, dd))

\* res as the fraction <<numerator, denominator>>
\* (mutant: a single step returns minDetail)
resSingleMin(P, L) ==
    IF P.steps <= 1 THEN <<P.minDetail, 1>>
    ELSE <<P.minDetail * (P.steps - 1) + L * (P.maxDetail - P.minDetail),
           P.steps - 1>>
\* (mutant: stepSize = (maxDetail - minDetail) / steps)
resShortStep(P, L) ==
    IF P.steps <= 1 THEN <<P.maxDetail, 1>>
    ELSE <<P.minDetail * P.steps + L * (P.maxDetail - P.minDetail), P.steps>>
res(P, L) ==
    IF P.steps <= 1 THEN <<P.maxDetail, 1>>
    ELSE <<P.minDetail * (P.steps - 1) + L * (P.maxDetail - P.minDetail),
           P.steps - 1>>

\* return Math.max(1, Math.round(res))  (mutant: no clamp to 1)
finalKUnclamped(r) == MathRound(r[1], r[2])
finalK(r) == Max(1, MathRound(r[1], r[2]))

\* getK with the importance already given as the fraction a/dd
resolve(P, a, dd) == finalK(res(P, levelIndex(P, a, dd)))

\* getK of the proximity Planet with dist/maxDist = dn/dd
getKDist(P, dn, dd) == resolve(P, closeness(dn, dd), dd)

\* getK of the proximity Planet at the sample point v
getK(v, P) == getKDist(P, dist(v, P), 2 * P.radius)

\* getK of the height-bias Planet: t_height = (v.y + 1) / 2
getKHeight(v, P) == resolve(P, v[2] + 1, 2)

----------------------------------------------------------------------------
(* Planet: vertex deduplication and the triangular patch generator *)

ICOSAHEDRON_FACES ==
    << <<0, 11, 5>>, <<0, 5, 1>>, <<0, 1, 7>>, <<0, 7, 10>>, <<0, 10, 11>>,
       <<1, 5, 9>>, <<5, 11, 4>>, <<11, 10, 2>>, <<10, 7, 6>>, <<7, 1, 8>>,
       <<3, 9, 4>>, <<3, 4, 2>>, <<3, 2, 6>>, <<3, 6, 8>>, <<3, 8, 9>>,
       <<4, 9, 5>>, <<2, 4, 11>>, <<6, 2, 10>>, <<8, 6, 7>>, <<9, 8, 1>> >>

\* corners v1, v2, v3 of the patch made of face number f (baseSub = 1)
Corners(f) == ICOSAHEDRON_FACES[f + 1]

\* baseSub = Math.max(1, Math.min(minDetail || 1, 5))
baseSub(P) == Max(1, Min(IF P.minDetail = 0 THEN 1 ELSE P.minDetail, 5))

\* slerp(V[a], V[b], n/d) for two icosahedron vertices: the point of the arc
\* a-b at parameter n/d, named independently of the direction of travel
slerp(a, b, n, d) ==
    IF n = 0 THEN <<"v", a>>
    ELSE IF n = d THEN <<"v", b>>
    ELSE LET g == GCD(n, d)
         IN  IF a < b THEN <<"e", a, b, n \div g, d \div g>>
             ELSE <<"e", b, a, (d - n) \div g, d \div g>>

\* slerp(rowStart, rowEnd, c / r) of row r of face f tessellated at k,
\* strictly inside the patch (0 < c < r < k)
slerpRow(f, r, c, k) ==
    LET g == GCD(GCD(r, c), k)
    IN  <<"i", f, r \div g, c \div g, k \div g>>

\* Math.round(t * k_e) with t = i / k  (mutant: the edge is not snapped to
\* its own resolution, the patch resolution k is used)
snapUnsnapped(i, k, k_e) == <<i, k>>
snap(i, k, k_e) == <<MathRound(i * k_e, k), k_e>>

\* the point stored at grid position (r, c) of a patch
gridPoint(pp, r, c) ==
    LET v1 == Corners(pp.face)[1]
        v2 == Corners(pp.face)[2]
        v3 == Corners(pp.face)[3]
    IN  IF r = pp.k
            THEN LET t == snap(c, pp.k, pp.k_e3) IN slerp(v2, v3, t[1], t[2])
        ELSE IF c = 0
            THEN LET t == snap(r, pp.k, pp.k_e1) IN slerp(v1, v2, t[1], t[2])
        ELSE IF c = r
            THEN LET t == snap(r, pp.k, pp.k_e2) IN slerp(v1, v3, t[1], t[2])
        ELSE slerpRow(pp.face, r, c, pp.k)

\* const precision = 6
precision == 6
\* displacementScale = 1
displacementScale == 1

\* An explicit point is <<"p", x, y, z>> with integer coordinates in units
\* of 10^-(precision + 1): one more decimal digit than the key keeps.
Unit == Pow(10, precision + 1)
KeyStep == Unit \div Pow(10, precision)

\* x.toFixed(precision): the sign of a negative number and its magnitude
\* rounded to the nearest multiple of 10^-precision, halves upward
toFixed(x) ==
    IF x < 0 THEN <<"-", MathRound(-x, KeyStep)>>
    ELSE <<"", MathRound(x, KeyStep)>>

\* the key of getVertexIndex, made of the unit vector v that is passed in.
\* A point named by its slerp expression is its own key: the name is the
\* exact position.
\* (mutant: the key is made of the position scaled by the radius)
vertexKeyWorld(v) ==
    IF v[1] = "p"
        THEN <<toFixed(v[2] * props.radius), toFixed(v[3] * props.radius),
               toFixed(v[4] * props.radius)>>
    ELSE v
vertexKey(v) ==
    IF v[1] = "p" THEN <<toFixed(v[2]), toFixed(v[3]), toFixed(v[4])>>
    ELSE v

\* getCylindricalUV for the explicit points whose longitude and latitude
\* are exact: x = 0 or z = 0, and y in {-1, 0, 1}; u in quarters, v in halves
getCylindricalUV(v) ==
    [u |-> CASE v[2] = 0 /\ v[4] >= 0 -> <<2, 4>>
             [] v[2] = 0 /\ v[4] < 0 -> <<4, 4>>
             [] v[4] = 0 /\ v[2] > 0 -> <<3, 4>>
             [] v[4] = 0 /\ v[2] < 0 -> <<1, 4>>,
     v |-> CASE v[3] >= Unit -> <<0, 2>>
             [] v[3] <= -Unit -> <<2, 2>>
             [] v[3] = 0 -> <<1, 2>>]

\* the pixel sampleHeight reads for the fractions u and v: x, y and the
\* byte index (y * width + x) * 4
\* (mutant: the coordinates are not clamped to the image)
samplePixelUnclamped(u, v, heightMap) ==
    LET x == MathFloor(u[1] * (heightMap.width - 1), u[2])
        y == MathFloor(v[1] * (heightMap.height - 1), v[2])
    IN  [x |-> x, y |-> y, index |-> (y * heightMap.width + x) * 4]
samplePixel(u, v, heightMap) ==
    LET x == Max(0, Min(heightMap.width - 1,
                        MathFloor(u[1] * (heightMap.width - 1), u[2])))
        y == Max(0, Min(heightMap.height - 1,
                        MathFloor(v[1] * (heightMap.height - 1), v[2])))
    IN  [x |-> x, y |-> y, index |-> (y * heightMap.width + x) * 4]

\* data[index] / 255 as a fraction; a read outside the array is undefined
\* and undefined / 255 is NaN, written <<0, 0>>
readHeight(data, index) ==
    IF index + 1 \in DOMAIN data THEN <<data[index + 1], 255>>
    ELSE <<0, 0>>

\* sampleHeight(u, v, heightMap) as the fraction data[index] / 255
sampleHeight(u, v, heightMap) ==
    readHeight(heightMap.data, samplePixel(u, v, heightMap).index)

\* let d = 0; if (heightMapData) d = sampleHeight(...) * displacementScale
\* (mutant: the height is sampled without the test, and an absent map
\* reads as full height)
displacementUnguarded(v) ==
    IF heightMapData = Null THEN <<255 * displacementScale, 255>>
    ELSE LET uv == getCylindricalUV(v)
             h == sampleHeight(uv.u, uv.v, heightMapData)
         IN  <<h[1] * displacementScale, h[2]>>
displacement(v) ==
    IF heightMapData = Null THEN <<0, 1>>
    ELSE LET uv == getCylindricalUV(v)
             h == sampleHeight(uv.u, uv.v, heightMapData)
         IN  <<h[1] * displacementScale, h[2]>>

\* x * f for the fraction f, in lowest terms to stay within machine integers
times(x, f) ==
    LET g == GCD(f[1], f[2])
        n == f[1] \div g
        d == f[2] \div g
    IN  (x \div d) * n + ((x % d) * n) \div d

\* v * (radius + d): a vector times the fraction f; a named point times 1 is
\* the point itself
scaled(v, f) ==
    IF v[1] = "p"
        THEN <<"p", times(v[2], f), times(v[3], f), times(v[4], f)>>
    ELSE IF f[1] = f[2] THEN v
    ELSE <<"s", f[1], f[2], v>>

\* the position getVertexIndex pushes for the unit vector v
displaced(v) ==
    LET d == displacement(v)
    IN  scaled(v, <<props.radius * d[2] + d[1], d[2]>>)

\* (mutant: the lookup is skipped, every call appends)
getVertexIndexAppending(v, st) ==
    LET index == Len(st.vertices)
    IN  [index |-> index, vertices |-> Append(st.vertices, displaced(v)),
         vertexMap |-> (vertexKey(v) :> index) @@ st.vertexMap]
getVertexIndex(v, st) ==
    LET key == vertexKey(v)
    IN  IF key \in DOMAIN st.vertexMap
            THEN [index |-> st.vertexMap[key], vertices |-> st.vertices,
                  vertexMap |-> st.vertexMap]
        ELSE LET index == Len(st.vertices)
             IN  [index |-> index,
                  vertices |-> Append(st.vertices, displaced(v)),
                  vertexMap |-> st.vertexMap @@ (key :> index)]

\* the inner loop (over c) of the vertex grid loop, from column c on
RECURSIVE FillRow(_, _, _, _)
FillRow(pp, r, c, st) ==
    IF c > r THEN st
    ELSE LET g == getVertexIndex(gridPoint(pp, r, c), st)
             st2 == [vertices |-> g.vertices, vertexMap |-> g.vertexMap,
                     faceGrid |-> st.faceGrid @@ (<<r, c>> :> g.index)]
         IN  Then(st2, FillRow(pp, r, c + 1, st2))

\* the vertex grid loop of processSubFace, from row r on
RECURSIVE FillGrid(_, _, _)
FillGrid(pp, r, st) ==
    IF r > pp.k THEN st
    ELSE LET st2 == FillRow(pp, r, 0, st)
         IN  Then(st2, FillGrid(pp, r + 1, st2))

\* if (i1 !== i2 && i2 !== i3 && i3 !== i1) indices.push(i1, i2, i3)
\* (mutant: the triangle is pushed without the test)
pushTriUnchecked(i1, i2, i3) == <<i1, i2, i3>>
pushTri(i1, i2, i3) ==
    IF i1 # i2 /\ i2 # i3 /\ i3 # i1 THEN <<i1, i2, i3>> ELSE <<>>

\* the inner loop over c of the triangle loop, and the closing triangle
RECURSIVE RowTris(_, _, _)
RowTris(fg, r, c) ==
    IF c < r
        THEN pushTri(fg[<<r, c>>], fg[<<r + 1, c>>], fg[<<r + 1, c + 1>>])
             \o pushTri(fg[<<r, c>>], fg[<<r + 1, c + 1>>], fg[<<r, c + 1>>])
             \o RowTris(fg, r, c + 1)
    ELSE pushTri(fg[<<r, r>>], fg[<<r + 1, r>>], fg[<<r + 1, r + 1>>])

\* the triangle loop of processSubFace, from row r on
RECURSIVE GridTris(_, _, _)
GridTris(fg, k, r) ==
    IF r >= k THEN <<>> ELSE RowTris(fg, r, 0) \o GridTris(fg, k, r + 1)

\* the points at which processSubFace evaluates getK
EvalPoints(f) ==
    LET v == Corners(f)
    IN  [center |-> <<"c", f>>,
         m12 |-> slerp(v[1], v[2], 1, 2),
         m13 |-> slerp(v[1], v[3], 1, 2),
         m23 |-> slerp(v[2], v[3], 1, 2)]

\* the values getK can take at a point: getK is a function of the point,
\* so a point evaluated before has the value found then; for a new point
\* dist / maxDist ranges over the multiples dn / DistDen
kOf(pt, memo) ==
    IF pt \in DOMAIN memo THEN {memo[pt]}
    ELSE {getKDist(props, dn, DistDen) : dn \in 0..(DistDen + 1)}

\* the Planet props of the passes explored: all k in 1..MaxK, and the
\* levels 1, 4, 8 of the seam scenario
\* Planet props that the specification calls malformed: steps <= 0, and
\* maxDetail < minDetail
MalformedProps ==
    { [DefaultProps EXCEPT !.minDetail = 1, !.maxDetail = 2, !.steps = 0],
      [DefaultProps EXCEPT !.minDetail = 1, !.maxDetail = 0, !.steps = 2] }

PassProps ==
    { [DefaultProps EXCEPT !.minDetail = 1, !.maxDetail = MaxK,
                           !.steps = MaxK],
      [DefaultProps EXCEPT !.minDetail = 0, !.maxDetail = 8, !.steps = 3] }
        \cup MalformedProps

\* faces 0 and 1 share the edge 0-5 in the same direction of travel,
\* faces 0 and 6 share the edge 11-5 in opposite directions
PassFaceLists == { <<0, 1>>, <<0, 6>> }

InitPass ==
    /\ IdleSample
    /\ IdleHome
    /\ pc = "input"
    /\ props \in PassProps
    /\ passFaces \in PassFaceLists
    /\ vertices = <<>>
    /\ vertexMap = <<>>
    /\ indices = <<>>
    /\ kAt = <<>>
    /\ patches = <<>>
    /\ IdleLod
    /\ IdleQuad
    /\ IdleTile
    /\ IdleHeight
    /\ IdleRegen
    /\ interned = <<>>

\* getK is a function of the props and the point: a pass whose props
\* were met before finds the values getK had then
PassField == IF props \in DOMAIN lodField THEN lodField[props] ELSE <<>>

\* (mutant: the buffers and the map outlive the pass, as module-level
\* state would)
StartPassKeeping ==
    /\ pc = "input"
    /\ baseSub(props) = 1
    /\ pc' = "pass"
    /\ kAt' = PassField
    /\ patches' = <<>>
    /\ UNCHANGED <<vertices, vertexMap, indices>>
    /\ UNCHANGED <<props, passFaces, lodVars, quad, tile,
                 hmVars, interned, regenVars, auxVars>>

\* the geometry useMemo starts: fresh buffers and deduplication map
StartPass ==
    /\ pc = "input"
    /\ baseSub(props) = 1
    /\ pc' = "pass"
    /\ vertices' = <<>>
    /\ vertexMap' = <<>>
    /\ indices' = <<>>
    /\ kAt' = PassField
    /\ patches' = <<>>
    /\ UNCHANGED <<props, passFaces, lodVars, quad, tile,
                 hmVars, interned, regenVars, auxVars>>

\* one call of processSubFace(v1, v2, v3) on the next face of the pass
ProcessSubFace ==
    /\ pc = "pass"
    /\ Len(patches) < Len(passFaces)
    /\ \E k_f \in kOf(EvalPoints(passFaces[Len(patches) + 1]).center, kAt),
          k_e1 \in kOf(EvalPoints(passFaces[Len(patches) + 1]).m12, kAt),
          k_e2 \in kOf(EvalPoints(passFaces[Len(patches) + 1]).m13, kAt),
          k_e3 \in kOf(EvalPoints(passFaces[Len(patches) + 1]).m23, kAt) :
        LET f == passFaces[Len(patches) + 1]
            ep == EvalPoints(f)
            k == Max(Max(k_f, k_e1), Max(k_e2, k_e3))
            pp == [face |-> f, k |-> k, k_f |-> k_f, k_e1 |-> k_e1,
                   k_e2 |-> k_e2, k_e3 |-> k_e3]
            st == FillGrid(pp, 0,
                           [vertices |-> vertices, vertexMap |-> vertexMap,
                            faceGrid |-> <<>>])
            tris == GridTris(st.faceGrid, k, 0)
        IN  /\ kAt' = (ep.center :> k_f) @@ (ep.m12 :> k_e1)
                        @@ (ep.m13 :> k_e2) @@ (ep.m23 :> k_e3) @@ kAt
            /\ vertices' = st.vertices
            /\ vertexMap' = st.vertexMap
            /\ indices' = indices \o tris
            /\ patches' = Append(patches,
                    [pp EXCEPT !.face = f] @@
                    [faceGrid |-> st.faceGrid, first |-> Len(indices),
                     last |-> Len(indices) + Len(tris)])
    /\ UNCHANGED <<pc, props, passFaces, lodVars, quad, tile,
                 hmVars, interned, regenVars, auxVars>>

\* the loop over the faces is over: the buffers become the geometry
FinishPass ==
    /\ pc = "pass"
    /\ Len(patches) = Len(passFaces)
    /\ pc' = "done"
    /\ UNCHANGED <<props, passVars, lodVars, quad, tile,
                 hmVars, interned, regenVars, auxVars>>

NextPass == StartPass \/ ProcessSubFace \/ FinishPass

SpecPass == InitPass /\ [][NextPass]_vars

----------------------------------------------------------------------------
(* Claims about the triangular patch generator (SpecPass) *)

\* the triangles of the index buffer between two offsets
TrisBetween(first, last) ==
    { <<indices[3 * j + 1], indices[3 * j + 2], indices[3 * j + 3]>> :
        j \in (first \div 3)..((last \div 3) - 1) }

\* the grid positions of edge e of a patch tessellated at k
EdgeCells(k, e) ==
    CASE e = 1 -> { <<r, 0>> : r \in 0..k }
      [] e = 2 -> { <<r, r>> : r \in 0..k }
      [] e = 3 -> { <<k, c>> : c \in 0..k }

\* the end points of edge e of patch p in its direction of travel
EdgeEnds(p, e) ==
    CASE e = 1 -> <<Corners(p.face)[1], Corners(p.face)[2]>>
      [] e = 2 -> <<Corners(p.face)[1], Corners(p.face)[3]>>
      [] e = 3 -> <<Corners(p.face)[2], Corners(p.face)[3]>>

EdgeRes(p, e) ==
    CASE e = 1 -> p.k_e1 [] e = 2 -> p.k_e2 [] e = 3 -> p.k_e3

\* the vertex indices patch p stores along its edge e
EdgeVerts(p, e) == { p.faceGrid[cell] : cell \in EdgeCells(p.k, e) }

SameEdge(p, e, q, f) ==
    {EdgeEnds(p, e)[1], EdgeEnds(p, e)[2]}
        = {EdgeEnds(q, f)[1], EdgeEnds(q, f)[2]}

OppositeEdge(p, e, q, f) ==
    /\ EdgeEnds(p, e)[1] = EdgeEnds(q, f)[2]
    /\ EdgeEnds(p, e)[2] = EdgeEnds(q, f)[1]

\* C1: seam closure.  The k + 1 boundary grid points of an edge of
\* resolution k_e are stored at exactly the k_e + 1 positions j / k_e of
\* that edge, and two patches that share an edge store the same vertices on
\* it, whatever their own resolutions and directions of travel.
C1_SeamClosure ==
    \A i \in 1..Len(patches), e \in 1..3 :
        LET p == patches[i]
            ends == EdgeEnds(p, e)
        IN  /\ { vertices[x + 1] : x \in EdgeVerts(p, e) }
                 = { slerp(ends[1], ends[2], j, EdgeRes(p, e)) :
                        j \in 0..EdgeRes(p, e) }
            /\ Cardinality(EdgeVerts(p, e)) = EdgeRes(p, e) + 1
            /\ \A j \in 1..Len(patches), f \in 1..3 :
                   SameEdge(p, e, patches[j], f)
                       => EdgeVerts(p, e) = EdgeVerts(patches[j], f)

\* a patch at k = 8 and a patch at k = 4 share an edge of resolution 4 that
\* they travel in opposite directions, with 5 vertices on it
C1_Witness ==
    /\ Len(patches) = 2
    /\ patches[1].k = 8
    /\ patches[2].k = 4
    /\ patches[1].k_e3 = 4
    /\ OppositeEdge(patches[1], 3, patches[2], 1)
    /\ Cardinality(EdgeVerts(patches[1], 3)) = 5
    /\ EdgeVerts(patches[1], 3) = EdgeVerts(patches[2], 1)

\* C2: no degenerate triangles.  Every triangle of the index buffer has
\* three pairwise distinct vertex indices.
C2_NoDegenerate ==
    \A t \in TrisBetween(0, Len(indices)) :
        t[1] # t[2] /\ t[2] # t[3] /\ t[3] # t[1]

\* a patch whose snapping collapsed some of its k * k candidate triangles
C2_Witness ==
    \E i \in 1..Len(patches) :
        /\ patches[i].last > patches[i].first
        /\ patches[i].last - patches[i].first
               < 3 * patches[i].k * patches[i].k

\* position of grid point (r, c) of patch p in the (r, c) parameter plane,
\* boundary points at their snapped edge parameter; the unit is
\* 1 / (k * k_e1 * k_e2 * k_e3) of the patch side
LocalPos(p, r, c) ==
    LET S == p.k * p.k_e1 * p.k_e2 * p.k_e3
        at(t) == (t[1] * S) \div t[2]
    IN  IF r = p.k THEN <<S, at(snap(c, p.k, p.k_e3))>>
        ELSE IF c = 0 THEN <<at(snap(r, p.k, p.k_e1)), 0>>
        ELSE IF c = r
            THEN <<at(snap(r, p.k, p.k_e2)), at(snap(r, p.k, p.k_e2))>>
        ELSE <<at(<<r, p.k>>), at(<<c, p.k>>)>>

PosOfVertex(p, x) ==
    LET cell == CHOOSE cell \in DOMAIN p.faceGrid : p.faceGrid[cell] = x
    IN  LocalPos(p, cell[1], cell[2])

\* twice the signed area; the triangle (r,c), (r+1,c), (r+1,c+1) of the
\* grid before snapping has a positive one
SignedArea(a, b, c) ==
    (b[1] - a[1]) * (c[2] - a[2]) - (b[2] - a[2]) * (c[1] - a[1])

TriArea(p, t) ==
    SignedArea(PosOfVertex(p, t[1]), PosOfVertex(p, t[2]),
               PosOfVertex(p, t[3]))

\* C3: consistent winding.  Every triangle a patch emits has a strictly
\* positive signed area in the parameter plane of the patch.
C3_Winding ==
    \A i \in 1..Len(patches) :
        \A t \in TrisBetween(patches[i].first, patches[i].last) :
            TriArea(patches[i], t) > 0

\* C14: the deduplicator's contract. A key not seen before appends one
\* position and gets the previous vertex count as its index, a key seen
\* before gets the index of its first occurrence and appends nothing; so
\* the map is injective onto 0..count-1, its size is the vertex count,
\* every grid cell holds the index its key has in the map, the position
\* stored at that index is the position of the key's point, and every
\* entry of the index buffer is below the vertex count.
C14_DedupContract ==
    LET n == Len(vertices)
        keys == DOMAIN vertexMap
    IN  /\ \A a \in keys, b \in keys : vertexMap[a] = vertexMap[b] => a = b
        /\ { vertexMap[a] : a \in keys } = 0..(n - 1)
        /\ Cardinality(keys) = n
        /\ \A i \in 1..Len(patches) :
              \A cell \in DOMAIN patches[i].faceGrid :
                LET v == gridPoint(patches[i], cell[1], cell[2])
                IN  /\ vertexKey(v) \in keys
                    /\ patches[i].faceGrid[cell] = vertexMap[vertexKey(v)]
                    /\ vertices[vertexMap[vertexKey(v)] + 1] = displaced(v)
        /\ keys = UNION { { vertexKey(gridPoint(patches[i], cell[1], cell[2])) :
                                cell \in DOMAIN patches[i].faceGrid } :
                            i \in 1..Len(patches) }
        /\ \A i \in 1..Len(indices) : indices[i] \in 0..(n - 1)

\* a finished pass of two patches in which the second patch met keys of
\* the first again: fewer vertices than grid cells
C14_Witness ==
    /\ pc = "done"
    /\ Len(patches) = 2
    /\ \E c1 \in DOMAIN patches[1].faceGrid,
          c2 \in DOMAIN patches[2].faceGrid :
            patches[1].faceGrid[c1] = patches[2].faceGrid[c2]
    /\ Len(vertices) < Cardinality(DOMAIN patches[1].faceGrid)
                          + Cardinality(DOMAIN patches[2].faceGrid)
    /\ Len(indices) > 0

Malformed(P) ==
    P.maxDetail < P.minDetail \/ P.radius <= 0 \/ P.steps <= 0

\* C13: fail-fast on malformed configuration.  When the pass is invoked
\* with maxDetail < minDetail, radius <= 0 or steps <= 0, it stops with a
\* configuration error: the pass never completes and both buffers stay
\* empty.
C13_FailFast ==
    Malformed(props) =>
        /\ pc # "done"
        /\ vertices = <<>>
        /\ indices = <<>>

----------------------------------------------------------------------------
(* Specification of the LOD resolver: every step evaluates getK of both   *)
(* Planet components at one sample point, and getK again for a second     *)
(* target position with all other props equal.                            *)

PropsSet ==
    [radius : Radii, minDetail : DetailValues,
     maxDetail : DetailValues \ {0}, steps : 1..MaxSteps,
     stepGamma : Gammas, position : Positions,
     targetPosition : Targets \cup {NoTarget}]

\* the props, the sample point and the second target are the inputs
InitLod ==
    /\ IdleSample
    /\ IdleHome
    /\ pc = "input"
    /\ props \in PropsSet
    /\ lodV \in SamplePoints
    /\ lodAltT \in Targets \cup {NoTarget}
    /\ ExactDist(lodV, props)
    /\ ExactDist(lodV, [props EXCEPT !.targetPosition = lodAltT])
    /\ lodK = 0
    /\ lodAltK = 0
    /\ lodHK = 0
    /\ IdlePass
    /\ IdleQuad
    /\ IdleTile
    /\ IdleHeight
    /\ IdleRegen
    /\ interned = <<>>

EvalGetK ==
    /\ pc = "input"
    /\ pc' = "done"
    /\ lodK' = getK(lodV, props)
    /\ lodAltK' = getK(lodV, [props EXCEPT !.targetPosition = lodAltT])
    /\ lodHK' = getKHeight(lodV, props)
    /\ UNCHANGED <<props, lodV, lodAltT, passVars, quad, tile,
                 hmVars, interned, regenVars, auxVars>>

NextLod == EvalGetK

SpecLod == InitLod /\ [][NextLod]_vars

----------------------------------------------------------------------------
(* Claims about the LOD resolver (SpecLod) *)

AltProps == [props EXCEPT !.targetPosition = lodAltT]

\* C8: LOD monotonicity.  With minDetail <= maxDetail and all other props
\* equal, a target strictly closer to the sample point never resolves to a
\* lower level than a farther target.
C8_Monotone ==
    (/\ pc = "done"
     /\ props.minDetail <= props.maxDetail
     /\ dist(lodV, props) < dist(lodV, AltProps))
        => lodK >= lodAltK

\* a closer target that resolves to a strictly higher level
C8_Witness ==
    /\ pc = "done"
    /\ props.minDetail <= props.maxDetail
    /\ dist(lodV, props) < dist(lodV, AltProps)
    /\ lodK > lodAltK

ScenarioProps ==
    [radius |-> 10, minDetail |-> 4, maxDetail |-> 12, steps |-> 4,
     stepGamma |-> <<2, 1>>, position |-> <<0, 0, 0>>,
     targetPosition |-> <<0, 10, 0>>]

\* C9: with minResolution 4, maxResolution 12, steps 4, stepGamma 2,
\* radius 10, the planet at the origin and the target at the pole, getK is
\* 12 at the pole point and 4 at the antipodal point.
C9_Scenario ==
    (pc = "done" /\ props = ScenarioProps)
        => /\ lodV = <<0, 1, 0>> => lodK = 12
           /\ lodV = <<0, -1, 0>> => lodK = 4

C9_Witness ==
    /\ pc = "done"
    /\ props = ScenarioProps
    /\ lodV = <<0, 1, 0>>
    /\ lodK = 12

\* C10: every value returned by getK (proximity and height bias) is an
\* integer >= 1, also for minResolution = 0 and minResolution > maxResolution.
C10_AtLeastOne ==
    pc = "done" =>
        /\ lodK \in Nat /\ lodK >= 1
        /\ lodAltK \in Nat /\ lodAltK >= 1
        /\ lodHK \in Nat /\ lodHK >= 1

\* minResolution = 0 at the lowest level: res is 0 and is clamped to 1
C10_Witness ==
    /\ pc = "done"
    /\ props.minDetail = 0
    /\ props.steps >= 2
    /\ res(props, levelIndex(props, closeness(dist(lodV, props),
                                              2 * props.radius),
                             2 * props.radius))[1] = 0
    /\ lodK = 1

\* the importance numerator of the evaluation of getK that returned lodK
LodCloseness == closeness(dist(lodV, props), 2 * props.radius)

\* the values getK returns over distances 0, 1/8, ..., 9/8 of maxDist
LodValues == { getKDist(props, dn, 8) : dn \in 0..9 }

\* C11: quantization.  For steps >= 2 and 1 <= minDetail <= maxDetail the
\* level index lies in 0..steps-1, the returned resolution lies in
\* minDetail..maxDetail, it is maxDetail at distance 0 and minDetail at
\* distance >= 2 * radius, and getK takes at most steps distinct values.
C11_Quantized ==
    (/\ pc = "done"
     /\ props.steps >= 2
     /\ props.minDetail >= 1
     /\ props.minDetail <= props.maxDetail)
        => /\ levelIndex(props, LodCloseness, 2 * props.radius)
                 \in 0..(props.steps - 1)
           /\ lodK \in props.minDetail..props.maxDetail
           /\ lodAltK \in props.minDetail..props.maxDetail
           /\ dist(lodV, props) = 0 => lodK = props.maxDetail
           /\ dist(lodV, props) >= 2 * props.radius
                 => lodK = props.minDetail
           /\ Cardinality(LodValues \cup {lodK, lodAltK}) <= props.steps

\* the same props give maxDetail at distance 0 and minDetail at the
\* antipode, and an intermediate level is taken in between
C11_Witness ==
    /\ pc = "done"
    /\ props.steps >= 3
    /\ 1 <= props.minDetail /\ props.minDetail < props.maxDetail
    /\ dist(lodV, props) = 0 /\ lodK = props.maxDetail
    /\ dist(lodV, AltProps) >= 2 * props.radius
    /\ lodAltK = props.minDetail
    /\ Cardinality(LodValues) = props.steps

\* C12: single-step LOD.  With steps = 1 getK returns maxDetail for every
\* sample point and every target position, whatever minDetail and stepGamma.
C12_SingleStep ==
    (pc = "done" /\ props.steps = 1)
        => /\ lodK = props.maxDetail
           /\ lodAltK = props.maxDetail
           /\ lodHK = props.maxDetail

\* a single step at the antipode of the target, with minDetail different
\* from maxDetail and a stepGamma other than 1
C12_Witness ==
    /\ pc = "done"
    /\ props.steps = 1
    /\ props.minDetail # props.maxDetail
    /\ props.stepGamma # <<1, 1>>
    /\ dist(lodV, props) >= 2 * props.radius
    /\ dist(lodV, AltProps) = 0
    /\ lodK = props.maxDetail
    /\ lodAltK = props.maxDetail

\* C20: when targetPosition is absent, for every planet position the target
\* is the sphere's own up pole: getK at the local point (0, 1, 0) sees
\* distance 0 and returns the level of importance 1, and getK at
\* (0, -1, 0) returns the level of importance 0.
C20_DefaultTarget ==
    (pc = "done" /\ props.targetPosition = NoTarget) =>
        /\ lodV = <<0, 1, 0>> =>
              /\ dist(lodV, props) = 0
              /\ lodK = resolve(props, 1, 1)
        /\ lodV = <<0, -1, 0>> => lodK = resolve(props, 0, 1)

----------------------------------------------------------------------------
(* The quad grid stitchers: createStitchedGeometry and createClipmapGeometry *)

StitchRatios == {1, 2}
HoleSizes == {<<0, 1>>, <<1, 2>>}
GridSegments == { 2 * h : h \in 2..MaxHalfSegments }

\* the values of the loop variable of "for (x = lo; x < hi; x += step)"
LoopCount(lo, hi, step) == (hi - lo + step - 1) \div step

RECURSIVE Flatten(_)
Flatten(ss) == IF ss = <<>> THEN <<>> ELSE Head(ss) \o Flatten(Tail(ss))

\* the index pushes of a for loop, in loop order; body maps a value of the
\* loop variable to the pushes of that iteration
Loop(lo, hi, step, body) ==
    Flatten([j \in 1..LoopCount(lo, hi, step) |-> body[lo + (j - 1) * step]])

\* Grid coordinates and segment counts are whole numbers of 1 / Sub: the
\* bottom face of SphericalClipmap has segments / 4 segments, a multiple of
\* 1/2 for the even values of segments.
Sub == 2

\* a whole number in units of 1 / Sub
units(n) == Sub * n

\* the denominator of the indices: getIdx multiplies two coordinates
IndexDen == Sub * Sub

\* z * gridSize + x, with gridSize = segments + 1, as a numerator over
\* IndexDen
getIdx(N, x, z) == z * (N + Sub) + Sub * x

addTri(a, b, c) == <<a, b, c>>

\* the two triangles (a, d, b), (b, d, c) of the grid cell at (x, z)
standardQuad(N, x, z) ==
    LET a == getIdx(N, x, z)
        b == getIdx(N, x + Sub, z)
        c == getIdx(N, x + Sub, z + Sub)
        d == getIdx(N, x, z + Sub)
    IN  addTri(a, d, b) \o addTri(b, d, c)

\* isInHole of createStitchedGeometry: holeStart = N * (0.5 - holeSize / 2),
\* holeEnd = N * (0.5 + holeSize / 2), holeSize = hn / hd
isInHole(g, x, z) ==
    LET hn == g.holeSize[1]
        hd == g.holeSize[2]
        in(v) == /\ 2 * hd * v >= g.segments * (hd - hn)
                 /\ 2 * hd * v < g.segments * (hd + hn)
    IN  g.isHole /\ in(x) /\ in(z)

\* isHole of createClipmapGeometry: holeStart = N / 4, holeEnd = 3 N / 4
isHoleClipmap(g, x, z) ==
    LET in(v) == 4 * v >= g.segments /\ 4 * v < 3 * g.segments
    IN  g.isRing /\ in(x) /\ in(z)

\* the interior loops; skip is the set of cells the hole test rejects
Interior(N, skip) ==
    LET row == [z \in 0..N |->
                  Loop(Sub, N - Sub, Sub,
                       [x \in 0..N |-> IF <<x, z>> \in skip THEN <<>>
                                       ELSE standardQuad(N, x, z)])]
    IN  Loop(Sub, N - Sub, Sub, row)

\* the fan of a stitched top strip at x: D-A-E, A-C-E, E-C-F
\* (mutant: the closing triangle E-C-F is left out)
TopFanOpen(N, x) ==
    LET A == getIdx(N, x, 0)
        C == getIdx(N, x + 2 * Sub, 0)
        D == getIdx(N, x, Sub)
        E == getIdx(N, x + Sub, Sub)
    IN  addTri(D, A, E) \o addTri(A, C, E)
TopFan(N, x) ==
    LET A == getIdx(N, x, 0)
        C == getIdx(N, x + 2 * Sub, 0)
        D == getIdx(N, x, Sub)
        E == getIdx(N, x + Sub, Sub)
        F == getIdx(N, x + 2 * Sub, Sub)
    IN  addTri(D, A, E) \o addTri(A, C, E) \o addTri(E, C, F)

BottomFan(N, x) ==
    LET D == getIdx(N, x, N - Sub)
        E == getIdx(N, x + Sub, N - Sub)
        F == getIdx(N, x + 2 * Sub, N - Sub)
        A == getIdx(N, x, N)
        C == getIdx(N, x + 2 * Sub, N)
    IN  addTri(D, A, E) \o addTri(E, A, C) \o addTri(F, C, E)

\* the fan of a stitched left strip at z
\* (mutant: two standard quads, which reference the odd vertex (0, z + Sub))
LeftFanDense(N, z) == standardQuad(N, 0, z) \o standardQuad(N, 0, z + Sub)
LeftFan(N, z) ==
    LET D == getIdx(N, Sub, z)
        E == getIdx(N, Sub, z + Sub)
        F == getIdx(N, Sub, z + 2 * Sub)
        A == getIdx(N, 0, z)
        C == getIdx(N, 0, z + 2 * Sub)
    IN  addTri(D, A, E) \o addTri(A, C, E) \o addTri(E, C, F)

RightFan(N, z) ==
    LET D == getIdx(N, N - Sub, z)
        E == getIdx(N, N - Sub, z + Sub)
        F == getIdx(N, N - Sub, z + 2 * Sub)
        A == getIdx(N, N, z)
        C == getIdx(N, N, z + 2 * Sub)
    IN  addTri(D, E, A) \o addTri(E, C, A) \o addTri(E, F, C)


\* a triangle of a 2 x 2 corner block, as three local offsets (dx, dz)
t(ax, az, bx, bz, cx, cz) == << <<ax, az>>, <<bx, bz>>, <<cx, cz>> >>

\* the standard quad of a corner block at local offset (dx, dz)
LocalQuad(dx, dz) ==
    << t(dx, dz, dx, dz + 1, dx + 1, dz),
       t(dx + 1, dz, dx, dz + 1, dx + 1, dz + 1) >>

\* "for dz in 0..1, for dx in 0..1": the four standard quads of a block
Standard2x2 ==
    LocalQuad(0, 0) \o LocalQuad(1, 0) \o LocalQuad(0, 1) \o LocalQuad(1, 1)

\* the index pushes of a corner block with its local i(dx, dz)
Block(N, xBase, zBase, tris) ==
    LET i(q) == getIdx(N, xBase + Sub * q[1], zBase + Sub * q[2])
    IN  Flatten([j \in 1..Len(tris) |->
            addTri(i(tris[j][1]), i(tris[j][2]), i(tris[j][3]))])

\* top-left corner, stitchH = top, stitchV = left
addCorner(N, xBase, zBase, stitchH, stitchV) ==
    Block(N, xBase, zBase,
      CASE stitchH > 1 /\ stitchV > 1 ->
             << t(0,0, 1,1, 0,2), t(0,0, 2,0, 1,1),
                t(2,0, 2,1, 1,1), t(0,2, 1,1, 1,2) >>
        [] stitchH = 1 /\ stitchV = 1 -> Standard2x2
        [] stitchH > 1 /\ stitchV = 1 ->
             << t(0,0, 2,0, 1,1), t(0,0, 1,1, 0,1) >> \o LocalQuad(0, 1)
                \o << t(2,0, 2,1, 1,1) >> \o LocalQuad(1, 1)
        [] stitchH = 1 /\ stitchV > 1 ->
             << t(0,0, 1,1, 0,2), t(0,0, 1,0, 1,1), t(0,2, 1,1, 1,2) >>
                \o LocalQuad(1, 0) \o LocalQuad(1, 1)
        [] OTHER -> << >>)

\* top-right corner, sH = top, sV = right
CornerTR(N, sH, sV) ==
    Block(N, N - 2 * Sub, 0,
      CASE sH > 1 /\ sV > 1 ->
             << t(0,0, 2,0, 1,1), t(2,0, 2,2, 1,1), t(2,0, 1,1, 0,0),
                t(0,0, 0,1, 1,1), t(2,2, 1,2, 1,1) >>
        [] sH = 1 /\ sV = 1 -> Standard2x2
        [] sH > 1 /\ sV = 1 ->
             << t(0,0, 1,1, 2,0), t(2,0, 2,1, 1,1), t(0,0, 0,1, 1,1) >>
                \o LocalQuad(0, 1) \o LocalQuad(1, 1)
        [] sH = 1 /\ sV > 1 ->
             << t(2,0, 2,2, 1,1), t(1,0, 2,0, 1,1), t(1,2, 2,2, 1,1) >>
                \o LocalQuad(0, 0) \o LocalQuad(0, 1)
        [] OTHER -> << >>)

\* bottom-left corner, sH = bottom, sV = left
CornerBL(N, sH, sV) ==
    Block(N, 0, N - 2 * Sub,
      CASE sH > 1 /\ sV > 1 ->
             << t(0,2, 0,0, 1,1), t(0,2, 1,1, 2,2),
                t(2,2, 2,1, 1,1), t(0,0, 1,1, 1,0) >>
        [] sH = 1 /\ sV = 1 -> Standard2x2
        [] sH > 1 /\ sV = 1 ->
             << t(0,2, 1,1, 2,2), t(0,1, 0,2, 1,1), t(2,1, 2,2, 1,1) >>
                \o LocalQuad(0, 0) \o LocalQuad(1, 0)
        [] sH = 1 /\ sV > 1 ->
             << t(0,2, 0,0, 1,1), t(0,0, 1,0, 1,1), t(0,2, 1,2, 1,1) >>
                \o LocalQuad(1, 0) \o LocalQuad(1, 1)
        [] OTHER -> << >>)

\* bottom-right corner, sH = bottom, sV = right
CornerBR(N, sH, sV) ==
    Block(N, N - 2 * Sub, N - 2 * Sub,
      CASE sH > 1 /\ sV > 1 ->
             << t(2,2, 1,1, 2,0), t(2,2, 0,2, 1,1),
                t(0,2, 0,1, 1,1), t(2,0, 1,0, 1,1) >>
        [] sH = 1 /\ sV = 1 -> Standard2x2
        [] sH > 1 /\ sV = 1 ->
             << t(0,2, 1,1, 2,2), t(0,1, 0,2, 1,1), t(2,1, 2,2, 1,1) >>
                \o LocalQuad(0, 0) \o LocalQuad(1, 0)
        [] sH = 1 /\ sV > 1 ->
             << t(2,0, 2,2, 1,1), t(1,0, 2,0, 1,1), t(1,2, 2,2, 1,1) >>
                \o LocalQuad(0, 0) \o LocalQuad(0, 1)
        [] OTHER -> << >>)

\* the index buffer createStitchedGeometry hands to setIndex, as numerators
\* over IndexDen; g.segments is in units of 1 / Sub
createStitchedGeometry(g) ==
    LET N == g.segments
        topR == g.stitchEdges.top
        botR == g.stitchEdges.bottom
        leftR == g.stitchEdges.left
        rightR == g.stitchEdges.right
        skip == { q \in (0..N) \X (0..N) : isInHole(g, q[1], q[2]) }
        topFan == [x \in 0..N |->
                     IF isInHole(g, x, 0) THEN <<>> ELSE TopFan(N, x)]
        topStd == [x \in 0..N |-> IF x < 2 * Sub \/ x >= N - 2 * Sub
                                      THEN <<>>
                                  ELSE standardQuad(N, x, 0)]
        botFan == [x \in 0..N |-> BottomFan(N, x)]
        botStd == [x \in 0..N |-> standardQuad(N, x, N - Sub)]
        leftFan == [z \in 0..N |-> LeftFan(N, z)]
        leftStd == [z \in 0..N |-> standardQuad(N, 0, z)]
        rightFan == [z \in 0..N |-> RightFan(N, z)]
        rightStd == [z \in 0..N |-> standardQuad(N, N - Sub, z)]
    IN  Interior(N, skip)
        \o (IF topR > 1 THEN Loop(2 * Sub, N - 2 * Sub, 2 * Sub, topFan)
                        ELSE Loop(Sub, N - Sub, Sub, topStd))
        \o (IF botR > 1 THEN Loop(2 * Sub, N - 2 * Sub, 2 * Sub, botFan)
                        ELSE Loop(2 * Sub, N - 2 * Sub, Sub, botStd))
        \o (IF leftR > 1 THEN Loop(2 * Sub, N - 2 * Sub, 2 * Sub, leftFan)
                         ELSE Loop(2 * Sub, N - 2 * Sub, Sub, leftStd))
        \o (IF rightR > 1 THEN Loop(2 * Sub, N - 2 * Sub, 2 * Sub, rightFan)
                          ELSE Loop(2 * Sub, N - 2 * Sub, Sub, rightStd))
        \o addCorner(N, 0, 0, topR, leftR)
        \o CornerTR(N, topR, rightR)
        \o CornerBL(N, botR, leftR)
        \o CornerBR(N, botR, rightR)

\* the index buffer createClipmapGeometry hands to setIndex, as numerators
\* over IndexDen; g.segments is in units of 1 / Sub
createClipmapGeometry(g) ==
    LET N == g.segments
        skip == { q \in (0..N) \X (0..N) : isHoleClipmap(g, q[1], q[2]) }
        topFan == [x \in 0..N |-> TopFan(N, x)]
        botFan == [x \in 0..N |-> BottomFan(N, x)]
        leftFan == [z \in 0..N |-> LeftFan(N, z)]
        rightFan == [z \in 0..N |-> RightFan(N, z)]
    IN  Interior(N, skip)
        \o Loop(2 * Sub, N - 2 * Sub, 2 * Sub, topFan)
        \o Loop(2 * Sub, N - 2 * Sub, 2 * Sub, botFan)
        \o Loop(2 * Sub, N - 2 * Sub, 2 * Sub, leftFan)
        \o Loop(2 * Sub, N - 2 * Sub, 2 * Sub, rightFan)
        \o Block(N, 0, 0, << t(0,0, 1,1, 0,2), t(0,0, 2,0, 1,1),
                             t(2,0, 2,1, 1,1), t(0,2, 1,1, 1,2) >>)
        \o Block(N, N - 2 * Sub, 0, << t(2,0, 2,2, 1,1), t(2,0, 1,1, 0,0),
                                 t(0,0, 0,1, 1,1), t(2,2, 1,2, 1,1) >>)
        \o Block(N, 0, N - 2 * Sub, << t(0,2, 0,0, 1,1), t(0,2, 1,1, 2,2),
                                 t(2,2, 2,1, 1,1), t(0,0, 1,1, 1,0) >>)
        \o Block(N, N - 2 * Sub, N - 2 * Sub, << t(2,2, 1,1, 2,0), t(2,2, 0,2, 1,1),
                                     t(0,2, 0,1, 1,1), t(2,0, 1,0, 1,1) >>)

\* the entries of an index buffer of a grid with a whole number of
\* segments, where every index is a whole number
Whole(idx) == [j \in DOMAIN idx |-> idx[j] \div IndexDen]

StitchedInputs ==
    [ kind : {"stitched"}, segments : GridSegments,
      stitchEdges : [top : StitchRatios, right : StitchRatios,
                     bottom : StitchRatios, left : StitchRatios],
      isHole : BOOLEAN, holeSize : HoleSizes, indices : {<<>>} ]

ClipmapInputs ==
    [ kind : {"clipmap"}, segments : GridSegments, isRing : BOOLEAN,
      indices : {<<>>} ]

InitGrid ==
    /\ IdleSample
    /\ IdleHome
    /\ pc = "input"
    /\ props = DefaultProps
    /\ quad \in StitchedInputs \cup ClipmapInputs
    /\ IdleLod /\ IdlePass /\ IdleTile
    /\ IdleHeight /\ IdleRegen /\ interned = <<>>

CreateStitched ==
    /\ pc = "input"
    /\ quad.kind = "stitched"
    /\ quad' = [quad EXCEPT !.indices =
            Whole(createStitchedGeometry(
                      [quad EXCEPT !.segments = units(quad.segments)]))]
    /\ pc' = "done"
    /\ UNCHANGED <<props, lodVars, passVars, tile,
                 hmVars, interned, regenVars, auxVars>>

CreateClipmap ==
    /\ pc = "input"
    /\ quad.kind = "clipmap"
    /\ quad' = [quad EXCEPT !.indices =
            Whole(createClipmapGeometry(
                      [quad EXCEPT !.segments = units(quad.segments)]))]
    /\ pc' = "done"
    /\ UNCHANGED <<props, lodVars, passVars, tile,
                 hmVars, interned, regenVars, auxVars>>

NextGrid == CreateStitched \/ CreateClipmap

SpecGrid == InitGrid /\ [][NextGrid]_vars


----------------------------------------------------------------------------
(* Claims about the quad grid stitchers (SpecGrid) *)

\* grid coordinates (x, z) of a vertex index: the inverse of getIdx
GridXZ(N, idx) == <<idx % (N + 1), idx \div (N + 1)>>

\* the triangles of the index buffer of the grid, as triples of (x, z)
GridTriangles ==
    { << GridXZ(quad.segments, quad.indices[3 * j + 1]),
         GridXZ(quad.segments, quad.indices[3 * j + 2]),
         GridXZ(quad.segments, quad.indices[3 * j + 3]) >> :
        j \in 0..((Len(quad.indices) \div 3) - 1) }

\* u.x * v.z - u.z * v.x for u = b - a, v = c - a
Cross(a, b, c) ==
    (b[1] - a[1]) * (c[2] - a[2]) - (b[2] - a[2]) * (c[1] - a[1])

\* point q strictly inside triangle tr, in coordinates scaled by 6
Inside(q, tr) ==
    LET a == <<6 * tr[1][1], 6 * tr[1][2]>>
        b == <<6 * tr[2][1], 6 * tr[2][2]>>
        c == <<6 * tr[3][1], 6 * tr[3][2]>>
        d1 == Cross(a, b, q)
        d2 == Cross(b, c, q)
        d3 == Cross(c, a, q)
    IN  \/ d1 > 0 /\ d2 > 0 /\ d3 > 0
        \/ d1 < 0 /\ d2 < 0 /\ d3 < 0

\* Every edge of an emitted triangle is horizontal, vertical or at 45
\* degrees through grid vertices, so a triangle is a union of quarter cells
\* (a cell cut by its two diagonals); the centroids of the four quarters of a
\* cell, in coordinates scaled by 6, sample its whole area.
QuarterPoints(x, z) ==
    { <<6 * x + 3, 6 * z + 1>>, <<6 * x + 5, 6 * z + 3>>,
      <<6 * x + 3, 6 * z + 5>>, <<6 * x + 1, 6 * z + 3>> }

CellCovered(x, z) ==
    \A q \in QuarterPoints(x, z) : \E tr \in GridTriangles : Inside(q, tr)

StitchedDone == pc = "done" /\ quad.kind = "stitched"

\* C4: corner-case table exhaustiveness.  Without a hole, for each of the
\* 16 combinations of stitch ratios the triangles of createStitchedGeometry
\* cover every grid cell with no gap, and every triangle has three pairwise
\* distinct, non-collinear grid vertices.
C4_CellsCovered ==
    (StitchedDone /\ ~quad.isHole) =>
        /\ \A x \in 0..(quad.segments - 1), z \in 0..(quad.segments - 1) :
               CellCovered(x, z)
        /\ \A tr \in GridTriangles :
               /\ tr[1] # tr[2] /\ tr[2] # tr[3] /\ tr[3] # tr[1]
               /\ Cross(tr[1], tr[2], tr[3]) # 0

\* a grid of 8 segments with all four kinds of corner block (both edges
\* stitched, neither, and the two mixed ones), fully triangulated
C4_Witness ==
    /\ StitchedDone /\ ~quad.isHole
    /\ quad.segments = 8
    /\ quad.stitchEdges = [top |-> 2, right |-> 1, bottom |-> 1, left |-> 2]
    /\ Len(quad.indices) > 0
    /\ CellCovered(0, 0) /\ CellCovered(7, 0)
    /\ CellCovered(0, 7) /\ CellCovered(7, 7)

\* the boundary vertices of an edge that some triangle references, by their
\* offset along the edge
Referenced(edge) ==
    LET N == quad.segments
        on(v) == CASE edge = "top" -> v[2] = 0
                   [] edge = "bottom" -> v[2] = N
                   [] edge = "left" -> v[1] = 0
                   [] edge = "right" -> v[1] = N
        offset(v) == IF edge \in {"top", "bottom"} THEN v[1] ELSE v[2]
    IN  { offset(v) : v \in { w \in UNION { {tr[1], tr[2], tr[3]} :
                                                tr \in GridTriangles } :
                                  on(w) } }

Evens(N) == { 2 * j : j \in 0..(N \div 2) }

Edges == {"top", "right", "bottom", "left"}

\* C5: coarse-side anchors.  On each edge with stitch ratio 2 the boundary
\* vertices referenced by the triangles of createStitchedGeometry are
\* exactly the even-indexed ones (segments / 2 + 1 of them), and on each
\* edge with ratio 1 all segments + 1 boundary vertices are referenced.
C5_Anchors ==
    StitchedDone =>
        \A edge \in Edges :
            IF quad.stitchEdges[edge] = 2
            THEN /\ Referenced(edge) = Evens(quad.segments)
                 /\ Cardinality(Referenced(edge)) = quad.segments \div 2 + 1
            ELSE Referenced(edge) = 0..quad.segments

\* 8 segments with only the top edge stitched: 5 anchors on the top row
C5_Witness ==
    /\ StitchedDone
    /\ quad.segments = 8
    /\ quad.stitchEdges = [top |-> 2, right |-> 1, bottom |-> 1, left |-> 1]
    /\ Cardinality(Referenced("top")) = 5
    /\ Cardinality(Referenced("left")) = 9

\* the j-th triangle of the index buffer of the grid, as (x, z) triples
TriAt(j) ==
    << GridXZ(quad.segments, quad.indices[3 * j + 1]),
       GridXZ(quad.segments, quad.indices[3 * j + 2]),
       GridXZ(quad.segments, quad.indices[3 * j + 3]) >>

\* the emitted triangles that cover the point q
Covering(q) ==
    { j \in 0..((Len(quad.indices) \div 3) - 1) : Inside(q, TriAt(j)) }

\* C24: exactly-once coverage.  Without a hole, for every combination of
\* stitch ratios each grid cell's area is covered by the triangles of
\* createStitchedGeometry exactly once: no triangle is emitted twice and
\* no two emitted triangles overlap.
C24_ExactlyOnce ==
    (StitchedDone /\ ~quad.isHole) =>
        \A x \in 0..(quad.segments - 1), z \in 0..(quad.segments - 1) :
            \A q \in QuarterPoints(x, z) : Cardinality(Covering(q)) = 1

Sign(n) == IF n > 0 THEN 1 ELSE IF n < 0 THEN -1 ELSE 0

\* C7: consistent winding.  All triangles emitted by createStitchedGeometry,
\* and all triangles emitted by createClipmapGeometry, have the same
\* orientation sign in (x, z) grid coordinates.
C7_Winding ==
    pc = "done" =>
        \A tr1 \in GridTriangles, tr2 \in GridTriangles :
            Sign(Cross(tr1[1], tr1[2], tr1[3]))
                = Sign(Cross(tr2[1], tr2[2], tr2[3]))


----------------------------------------------------------------------------
(* The tiling stitcher: StitchedFace of the CubicSpheroid file *)

RES_TOP == 8
RES_SIDE == 4
RES_BOTTOM == 2

TileSegments == { 2 * h : h \in 1..MaxHalfSegments }
NeighborResolutions ==
    { <<nTop, nBottom, nLeft, nRight>> :
        nTop \in {RES_BOTTOM, RES_SIDE, RES_TOP},
        nBottom \in {RES_BOTTOM, RES_SIDE, RES_TOP},
        nLeft \in {RES_BOTTOM, RES_SIDE, RES_TOP},
        nRight \in {RES_BOTTOM, RES_SIDE, RES_TOP} }

stitchTop(f) == f.segments > f.neighborSegments[1]
stitchBottom(f) == f.segments > f.neighborSegments[2]
stitchLeft(f) == f.segments > f.neighborSegments[3]
stitchRight(f) == f.segments > f.neighborSegments[4]

getVertIndex(S, x, y) == y * (S + 1) + x

\* width and height of the block the loop starts at cell (x, y)
BlockSize(f, x, y) ==
    LET S == f.segments
        w == IF (y = 0 /\ stitchBottom(f)) \/ (y = S - 1 /\ stitchTop(f))
             THEN 2 ELSE 1
        h == IF (x = 0 /\ stitchLeft(f)) \/ (x = S - 1 /\ stitchRight(f))
             THEN 2 ELSE 1
    IN  [w |-> IF x + w > S THEN 1 ELSE w, h |-> IF y + h > S THEN 1 ELSE h]

\* the index pushes of the block of size w x h at (x, y)
BlockTris(S, x, y, w, h) ==
    LET v00 == getVertIndex(S, x, y)
        v10 == getVertIndex(S, x + 1, y)
        v20 == getVertIndex(S, x + 2, y)
        v01 == getVertIndex(S, x, y + 1)
        v11 == getVertIndex(S, x + 1, y + 1)
        v21 == getVertIndex(S, x + 2, y + 1)
        v02 == getVertIndex(S, x, y + 2)
        v12 == getVertIndex(S, x + 1, y + 2)
        v22 == getVertIndex(S, x + 2, y + 2)
        stitchB == y = 0
        stitchT == y = S - 2
        stitchL == x = 0
        stitchR == x = S - 2
    IN  CASE w = 1 /\ h = 1 -> <<v00, v10, v01, v10, v11, v01>>
          [] w = 2 /\ h = 1 ->
               IF y = 0
               THEN <<v00, v11, v01, v00, v20, v11, v20, v21, v11>>
               ELSE <<v00, v10, v01, v01, v10, v21, v10, v20, v21>>
          [] w = 1 /\ h = 2 ->
               IF x = 0
               THEN <<v00, v10, v11, v00, v11, v02, v02, v11, v12>>
               ELSE <<v00, v10, v01, v01, v10, v12, v01, v12, v02>>
          [] w = 2 /\ h = 2 ->
               IF stitchB /\ stitchL
               THEN <<v00, v20, v11, v20, v21, v11, v21, v22, v11,
                      v22, v12, v11, v12, v02, v11, v02, v00, v11>>
               ELSE IF stitchB /\ stitchR
               THEN <<v00, v20, v11, v20, v22, v11, v22, v12, v11,
                      v12, v02, v11, v02, v01, v11, v01, v00, v11>>
               ELSE IF stitchT /\ stitchL
               THEN <<v00, v10, v11, v10, v20, v11, v20, v21, v11,
                      v21, v22, v11, v22, v02, v11, v02, v00, v11>>
               ELSE IF stitchT /\ stitchR
               THEN <<v00, v10, v11, v10, v20, v11, v20, v22, v11,
                      v22, v02, v11, v02, v01, v11, v01, v00, v11>>
               ELSE << >>

\* the inner loop "for x" of row y, from cell x on; st holds the visited
\* cells, the index buffer and the blocks started so far
RECURSIVE TileRow(_, _, _, _)
TileRow(f, x, y, st) ==
    LET S == f.segments
    IN  IF x >= S THEN st
        ELSE IF <<x, y>> \in st.visited THEN TileRow(f, x + 1, y, st)
        ELSE LET b == BlockSize(f, x, y)
                 st2 == [ visited |-> st.visited \cup
                              { <<x + dx, y + dy>> :
                                  dx \in 0..(b.w - 1), dy \in 0..(b.h - 1) },
                          indices |-> st.indices
                                        \o BlockTris(S, x, y, b.w, b.h),
                          blocks |-> Append(st.blocks,
                                       [x |-> x, y |-> y, w |-> b.w,
                                        h |-> b.h]) ]
             IN  Then(st2, TileRow(f, x + 1, y, st2))

\* the loop "for y, for x" from row y on
RECURSIVE Tiling(_, _, _)
Tiling(f, y, st) ==
    IF y >= f.segments THEN st
    ELSE LET st2 == TileRow(f, 0, y, st)
         IN  Then(st2, Tiling(f, y + 1, st2))

TileInputs ==
    [ kind : {"tiling"}, segments : TileSegments,
      neighborSegments : NeighborResolutions,
      visited : {{}}, indices : {<<>>}, blocks : {<<>>} ]

InitTile ==
    /\ IdleSample
    /\ IdleHome
    /\ pc = "input"
    /\ props = DefaultProps
    /\ tile \in TileInputs
    /\ IdleLod /\ IdlePass /\ IdleQuad
    /\ IdleHeight /\ IdleRegen /\ interned = <<>>

\* the useMemo of StitchedFace: the whole tiling loop
StitchFace ==
    /\ pc = "input"
    /\ LET st == Tiling(tile, 0, [visited |-> {}, indices |-> <<>>,
                                  blocks |-> <<>>])
       IN  tile' = [tile EXCEPT !.visited = st.visited,
                                !.indices = st.indices,
                                !.blocks = st.blocks]
    /\ pc' = "done"
    /\ UNCHANGED <<props, lodVars, passVars, quad,
                 hmVars, interned, regenVars, auxVars>>

NextTile == StitchFace

SpecTile == InitTile /\ [][NextTile]_vars

----------------------------------------------------------------------------
(* Claims about the tiling stitcher (SpecTile) *)

\* the vertices (x, y) referenced by the index buffer of the tiling
TileReferenced ==
    { <<tile.indices[j] % (tile.segments + 1),
        tile.indices[j] \div (tile.segments + 1)>> :
        j \in 1..Len(tile.indices) }

\* the offsets along an edge of the boundary vertices that are referenced
TileAnchors(edge) ==
    LET S == tile.segments
    IN  CASE edge = "top" -> { v[1] : v \in { u \in TileReferenced : u[2] = S } }
          [] edge = "bottom" -> { v[1] : v \in { u \in TileReferenced : u[2] = 0 } }
          [] edge = "left" -> { v[2] : v \in { u \in TileReferenced : u[1] = 0 } }
          [] edge = "right" -> { v[2] : v \in { u \in TileReferenced : u[1] = S } }

TileStitched(edge) ==
    CASE edge = "top" -> stitchTop(tile)
      [] edge = "bottom" -> stitchBottom(tile)
      [] edge = "left" -> stitchLeft(tile)
      [] edge = "right" -> stitchRight(tile)

\* C6: coarse-side anchors of the tiling stitcher.  For even segments >= 4
\* and any combination of stitched edges, every 2-cell stitch block starts
\* at an even offset along its edge, and the boundary vertices referenced on
\* a stitched edge are exactly the even-indexed ones.
C6_EvenOffsets ==
    (pc = "done" /\ tile.kind = "tiling" /\ tile.segments >= 4) =>
        /\ \A j \in 1..Len(tile.blocks) :
               /\ tile.blocks[j].w = 2 => tile.blocks[j].x % 2 = 0
               /\ tile.blocks[j].h = 2 => tile.blocks[j].y % 2 = 0
        /\ \A edge \in Edges :
               TileStitched(edge) =>
                   TileAnchors(edge) = Evens(tile.segments)

\* the blocks of the tiling that contain the cell (x, y)
BlocksOver(x, y) ==
    { n \in 1..Len(tile.blocks) :
        /\ tile.blocks[n].x <= x /\ x < tile.blocks[n].x + tile.blocks[n].w
        /\ tile.blocks[n].y <= y /\ y < tile.blocks[n].y + tile.blocks[n].h }

\* C25: exactly-once tiling.  For every even segments and every combination
\* of the stitch flags each of the segments x segments cells is covered by
\* exactly one block, and every emitted index is in [0, (segments + 1)^2).
C25_TiledOnce ==
    (pc = "done" /\ tile.kind = "tiling") =>
        /\ \A x \in 0..(tile.segments - 1), y \in 0..(tile.segments - 1) :
              Cardinality(BlocksOver(x, y)) = 1
        /\ \A n \in 1..Len(tile.indices) :
              /\ tile.indices[n] >= 0
              /\ tile.indices[n] < (tile.segments + 1) * (tile.segments + 1)

(***************************************************************************)
(* The vertex deduplicator on explicit coordinates, and the height map     *)
(* state of Planet: the load effect, the loads in flight, and the calls of *)
(* getVertexIndex of the current geometry pass.                            *)
(***************************************************************************)

\* the calls of getVertexIndex followed in one pass
MaxCalls == 3

Urls == {"a.png", "b.png"}

\* the decoded images: a.png is white, b.png has white and black pixels
HeightMapOf ==
    [u \in Urls |->
        [width |-> 2, height |-> 2,
         data |-> [i \in 1..16 |->
                      IF u = "a.png" THEN 255
                      ELSE IF i \in {1, 13} THEN 255 ELSE 0]]]

InternRadii == {1, 2, 10}

\* unit vectors handed to getVertexIndex: near the up pole with x a few
\* units of 10^-(precision + 1), the down pole, and the -z axis
Candidates ==
    { <<"p", x, Unit, 0>> : x \in {1, 4, 6, -1} }
        \cup { <<"p", 0, -Unit, 0>>, <<"p", 0, 0, -Unit>> }

InitIntern ==
    /\ IdleSample
    /\ IdleHome
    /\ pc = "mount"
    /\ props \in { [DefaultProps EXCEPT !.radius = r] : r \in InternRadii }
    /\ heightMapUrl \in Urls \cup {NoUrl}
    /\ heightMapData = Null
    /\ heightMapLoads = {}
    /\ vertices = <<>>
    /\ vertexMap = <<>>
    /\ interned = <<>>
    /\ indices = <<>>
    /\ kAt = <<>>
    /\ patches = <<>>
    /\ passFaces = <<>>
    /\ IdleLod
    /\ IdleQuad
    /\ IdleTile
    /\ IdleRegen

\* useEffect(() => { if (heightMapUrl) loadHeightMap(heightMapUrl)... })
\* on mount
LoadEffect ==
    /\ pc = "mount"
    /\ pc' = "ready"
    /\ heightMapLoads' = IF heightMapUrl # NoUrl THEN {heightMapUrl} ELSE {}
    /\ UNCHANGED <<props, heightMapUrl, heightMapData, passVars,
                   lodVars, quad, tile, interned, regenVars, auxVars>>

\* the heightMapUrl prop changes and the effect runs again
SetHeightMapUrl ==
    /\ pc = "ready"
    /\ \E u \in (Urls \cup {NoUrl}) \ {heightMapUrl} :
        /\ heightMapUrl' = u
        /\ heightMapLoads' = IF u # NoUrl THEN heightMapLoads \cup {u}
                             ELSE heightMapLoads
    /\ UNCHANGED <<pc, props, heightMapData, passVars,
                   lodVars, quad, tile, interned, regenVars, auxVars>>

\* setHeightMapData(data): heightMapData is a dependency of the geometry
\* useMemo, so a new value starts a new pass with fresh buffers and map
SetHeightMapData(data) ==
    /\ heightMapData' = data
    /\ IF data = Null /\ heightMapData = Null
           THEN UNCHANGED <<vertices, vertexMap, interned>>
       ELSE /\ vertices' = <<>>
            /\ vertexMap' = <<>>
            /\ interned' = <<>>

\* img.onload of a load in flight: the image data, or null when the canvas
\* has no 2d context
ImageOnload ==
    /\ pc = "ready"
    /\ \E u \in heightMapLoads, ctx \in BOOLEAN :
        /\ heightMapLoads' = heightMapLoads \ {u}
        /\ SetHeightMapData(IF ctx THEN HeightMapOf[u] ELSE Null)
    /\ UNCHANGED <<pc, props, heightMapUrl, indices, kAt, patches, passFaces,
                   lodVars, quad, tile, regenVars, auxVars>>

\* img.onerror of a load in flight: resolve(null)
ImageOnerror ==
    /\ pc = "ready"
    /\ \E u \in heightMapLoads :
        /\ heightMapLoads' = heightMapLoads \ {u}
        /\ SetHeightMapData(Null)
    /\ UNCHANGED <<pc, props, heightMapUrl, indices, kAt, patches, passFaces,
                   lodVars, quad, tile, regenVars, auxVars>>

\* one call getVertexIndex(v) of the current pass
Intern ==
    /\ pc = "ready"
    /\ Len(interned) < MaxCalls
    /\ \E v \in Candidates :
        LET g == getVertexIndex(v, [vertices |-> vertices,
                                    vertexMap |-> vertexMap])
        IN  /\ vertices' = g.vertices
            /\ vertexMap' = g.vertexMap
            /\ interned' = Append(interned, [v |-> v, index |-> g.index])
    /\ UNCHANGED <<pc, props, hmVars, indices, kAt, patches, passFaces,
                   lodVars, quad, tile, regenVars, auxVars>>

NextIntern ==
    LoadEffect \/ SetHeightMapUrl \/ ImageOnload \/ ImageOnerror \/ Intern

SpecIntern == InitIntern /\ [][NextIntern]_vars

\* the calls of the current pass, as a set
Calls == { interned[i] : i \in 1..Len(interned) }

\* the position of v in world units after radius scaling and displacement,
\* each coordinate formatted to precision decimals
WorldRounded(v) ==
    LET w == displaced(v)
    IN  <<toFixed(w[2]), toFixed(w[3]), toFixed(w[4])>>

UnitFormatted(v) == <<toFixed(v[2]), toFixed(v[3]), toFixed(v[4])>>

C19_ZeroDisplacement ==
    heightMapData = Null =>
        /\ \A c \in Calls : c.index < Len(vertices)
        /\ \A i \in 1..Len(vertices) :
            \E c \in Calls :
                /\ c.index = i - 1
                /\ vertices[i] = <<"p", c.v[2] * props.radius,
                                   c.v[3] * props.radius,
                                   c.v[4] * props.radius>>

\* a URL was given, its load settled without data, and a pass at a radius
\* other than 1 stored vertices
C19_Witness ==
    /\ heightMapUrl # NoUrl
    /\ heightMapLoads = {}
    /\ heightMapData = Null
    /\ props.radius > 1
    /\ Len(vertices) >= 2

(***************************************************************************)
(* Regeneration: the geometry useMemo of Planet runs again whenever one of *)
(* its dependencies changes; each run is one pass.                         *)
(***************************************************************************)

\* the passes followed
MaxPasses == 3

\* two parameter tuples: levels 1..2 in two steps, and the single level 1
RegenProps ==
    { [DefaultProps EXCEPT !.minDetail = 1, !.maxDetail = 2, !.steps = 2],
      [DefaultProps EXCEPT !.minDetail = 1, !.maxDetail = 1, !.steps = 1] }

InitRegen ==
    /\ IdleSample
    /\ IdleHome
    /\ pc = "input"
    /\ props \in RegenProps
    /\ passFaces = <<0, 1>>
    /\ vertices = <<>>
    /\ vertexMap = <<>>
    /\ indices = <<>>
    /\ kAt = <<>>
    /\ patches = <<>>
    /\ lodField = <<>>
    /\ passLog = <<>>
    /\ interned = <<>>
    /\ IdleLod
    /\ IdleQuad
    /\ IdleTile
    /\ IdleHeight

\* the useMemo callback returns { vertices, indices } of this pass
RegenFinish ==
    /\ pc = "pass"
    /\ Len(patches) = Len(passFaces)
    /\ pc' = "done"
    /\ lodField' = (props :> kAt) @@ lodField
    /\ passLog' = Append(passLog, [props |-> props, vertices |-> vertices,
                                   indices |-> indices])
    /\ UNCHANGED <<props, passVars, lodVars, quad, tile,
                   hmVars, interned, auxVars>>

\* the component renders with a parameter tuple and the memo runs again;
\* until then the buffers of the last pass are what the mesh holds
SetProps ==
    /\ pc = "done"
    /\ Len(passLog) < MaxPasses
    /\ props' \in RegenProps
    /\ pc' = "input"
    /\ UNCHANGED <<passVars, lodVars, quad, tile,
                   hmVars, interned, regenVars, auxVars>>

NextRegen == StartPass \/ ProcessSubFace \/ RegenFinish \/ SetProps

SpecRegen == InitRegen /\ [][NextRegen]_vars

\* C16: two passes with the identical parameter tuple produce identical
\* vertex and index buffers, whatever passes ran before or between them;
\* and the deduplication map and both buffers are empty when a pass starts.
C16_PassIsolation ==
    /\ \A i \in 1..Len(passLog), j \in 1..Len(passLog) :
          passLog[i].props = passLog[j].props =>
              /\ passLog[i].vertices = passLog[j].vertices
              /\ passLog[i].indices = passLog[j].indices
    /\ (pc = "pass" /\ patches = <<>>) =>
          /\ vertices = <<>>
          /\ indices = <<>>
          /\ vertexMap = <<>>

\* three passes, the first and the third with the same parameter tuple and
\* another tuple between them, each with a mesh
C16_Witness ==
    /\ Len(passLog) = 3
    /\ passLog[1].props = passLog[3].props
    /\ passLog[1].props # passLog[2].props
    /\ \A i \in 1..3 : Len(passLog[i].indices) > 0
    /\ passLog[1].vertices # passLog[2].vertices

(***************************************************************************)
(* The faces of SphericalClipmap: the levels of the top face, the four     *)
(* side faces and the bottom face, each built by createStitchedGeometry.   *)
(***************************************************************************)

\* segments: { value: 64, min: 16, max: 128, step: 2 }
segmentsMin == 16
segmentsStep == 2
\* lodDelta: { value: 2, options: [2] }
lodDelta == 2

\* the values of segments and of levels followed
MaxSegmentSteps == 3
MaxLevels == 4

FaceSegments == { segmentsMin + segmentsStep * j : j \in 0..MaxSegmentSteps }

SideFaces == {"px", "nx", "pz", "nz"}

\* the StitchedFace elements SphericalClipmap renders
FaceInputs ==
    { [kind |-> "face", segments |-> s, levels |-> l, face |-> f[1],
       level |-> f[2], indices |-> <<>>, vertexCount |-> 0] :
        s \in FaceSegments, l \in 1..MaxLevels,
        f \in ({"py"} \X (0..(MaxLevels - 1)))
                \cup ((SideFaces \cup {"ny"}) \X {0}) }

\* the arguments of createStitchedGeometry for a face; the segment count
\* in units of 1 / Sub: sideSegments = segments / 2,
\* botSegments = segments / 4
FaceGeometry(q) ==
    CASE q.face = "py" ->
           [segments |-> units(q.segments),
            stitchEdges |-> [top |-> 2, right |-> 2, bottom |-> 2,
                             left |-> 2],
            isHole |-> q.level > 0, holeSize |-> <<1, lodDelta>>]
      [] q.face \in SideFaces ->
           [segments |-> units(q.segments) \div 2,
            stitchEdges |-> [top |-> 1, right |-> 1, bottom |-> 2,
                             left |-> 1],
            isHole |-> FALSE, holeSize |-> <<0, 1>>]
      [] q.face = "ny" ->
           [segments |-> units(q.segments) \div 4,
            stitchEdges |-> [top |-> 1, right |-> 1, bottom |-> 1,
                             left |-> 1],
            isHole |-> FALSE, holeSize |-> <<0, 1>>]

\* vertices.length / 3 after the loops "for (z = 0; z < gridSize; z++)
\* for (x = 0; x < gridSize; x++)"
vertexCount(g) ==
    LoopCount(0, g.segments + Sub, Sub) * LoopCount(0, g.segments + Sub, Sub)

InitFaces ==
    /\ IdleSample
    /\ IdleHome
    /\ pc = "input"
    /\ props = DefaultProps
    /\ quad \in { q \in FaceInputs : q.level < q.levels }
    /\ IdleLod /\ IdlePass /\ IdleTile
    /\ IdleHeight /\ IdleRegen /\ interned = <<>>

\* the useMemo of one StitchedFace of SphericalClipmap
BuildFace ==
    /\ pc = "input"
    /\ quad.kind = "face"
    /\ quad' = [quad EXCEPT
                  !.indices = createStitchedGeometry(FaceGeometry(quad)),
                  !.vertexCount = vertexCount(FaceGeometry(quad))]
    /\ pc' = "done"
    /\ UNCHANGED <<props, lodVars, passVars, tile,
                   hmVars, interned, regenVars, auxVars>>

NextFaces == BuildFace

SpecFaces == InitFaces /\ [][NextFaces]_vars

\* C17: for every selectable segments, every face SphericalClipmap builds
\* (top levels with segments, sides with segments / 2, bottom with
\* segments / 4) has an index buffer whose entries are all whole numbers
\* in [0, vertexCount).
C17_IndexValidity ==
    (pc = "done" /\ quad.kind = "face") =>
        \A j \in 1..Len(quad.indices) :
            /\ quad.indices[j] % IndexDen = 0
            /\ quad.indices[j] \div IndexDen >= 0
            /\ quad.indices[j] \div IndexDen < quad.vertexCount

(***************************************************************************)
(* Hole carving: createStitchedGeometry with isHole set, over hole sizes   *)
(* from 0 to 1.                                                            *)
(***************************************************************************)

CarveSizes == {<<0, 1>>, <<1, 4>>, <<1, 2>>, <<3, 4>>, <<1, 1>>}

CarveInputs ==
    [ kind : {"stitched"}, segments : GridSegments,
      stitchEdges : [top : StitchRatios, right : StitchRatios,
                     bottom : StitchRatios, left : StitchRatios],
      isHole : {TRUE}, holeSize : CarveSizes, indices : {<<>>} ]

InitCarve ==
    /\ IdleSample
    /\ IdleHome
    /\ pc = "input"
    /\ props = DefaultProps
    /\ quad \in CarveInputs
    /\ IdleLod /\ IdlePass /\ IdleTile
    /\ IdleHeight /\ IdleRegen /\ interned = <<>>

NextCarve == CreateStitched

SpecCarve == InitCarve /\ [][NextCarve]_vars

\* the triangle tr lies inside the grid cell at (x, z)
InCell(tr, x, z) ==
    \A i \in 1..3 : /\ tr[i][1] \in {x, x + 1}
                    /\ tr[i][2] \in {z, z + 1}

\* C18: when isHole is set, for every holeSize in [0, 1] and every stitch
\* combination, no emitted triangle (of the interior, of a strip or of a
\* corner block) lies inside a cell (x, z) with holeStart <= x < holeEnd and
\* holeStart <= z < holeEnd.
C18_HoleCarved ==
    (StitchedDone /\ quad.isHole) =>
        \A x \in 0..(quad.segments - 1), z \in 0..(quad.segments - 1) :
            isInHole(quad, x, z) =>
                \A tr \in GridTriangles : ~InCell(tr, x, z)

(***************************************************************************)
(* The sub-face loop of Planet: each icosahedron face is cut into patches, *)
(* and each patch is handed to processSubFace.                             *)
(***************************************************************************)

\* the values of minDetail followed
MaxMinDetail == 7

\* (mutant: the upside-down patches are left out)
SubFaceCallsUp(bs) ==
    Flatten([n \in 1..(bs * bs) |->
        LET i == (n - 1) \div bs
            j == (n - 1) % bs
        IN  IF j > i THEN <<>> ELSE << <<i, j, "up">> >>])

\* the calls of processSubFace for one face, in loop order: the patch at
\* (i, j), and for j < i the upside-down patch next to it
SubFaceCalls(bs) ==
    Flatten([n \in 1..(bs * bs) |->
        LET i == (n - 1) \div bs
            j == (n - 1) % bs
        IN  IF j > i THEN <<>>
            ELSE IF j < i THEN << <<i, j, "up">>, <<i, j, "down">> >>
            ELSE << <<i, j, "up">> >>])

InitSub ==
    /\ IdleSample
    /\ IdleHome
    /\ pc = "face"
    /\ props \in { [DefaultProps EXCEPT !.minDetail = m] :
                     m \in 0..MaxMinDetail }
    /\ passFaces = <<>>
    /\ vertices = <<>>
    /\ vertexMap = <<>>
    /\ indices = <<>>
    /\ kAt = <<>>
    /\ patches = <<>>
    /\ IdleLod /\ IdleQuad /\ IdleTile
    /\ IdleHeight /\ IdleRegen /\ interned = <<>>

\* the loops over i and j for one face of the icosahedron
Subdivide ==
    /\ pc = "face"
    /\ pc' = "subdivided"
    /\ passFaces' = SubFaceCalls(baseSub(props))
    /\ UNCHANGED <<props, vertices, vertexMap, indices, kAt, patches,
                   lodVars, quad, tile, hmVars, interned, regenVars, auxVars>>

NextPatch == StartPass \/ ProcessSubFace \/ FinishPass \/ Subdivide

SpecPatch == (InitPass \/ InitSub) /\ [][NextPatch]_vars

\* C22: for every patch k is the largest of the four resolutions, the local
\* grid has exactly (k+1)(k+2)/2 entries (rows 0..k, columns 0..r), at most
\* k^2 triangles are emitted and exactly k^2 when the three edge
\* resolutions equal k; a face is split into exactly baseSub^2 patches,
\* baseSub in 1..5.
C22_PatchSize ==
    /\ pc \in {"pass", "done"} =>
        \A n \in 1..Len(patches) :
            LET p == patches[n]
                tris == (p.last - p.first) \div 3
            IN  /\ p.k \in {p.k_f, p.k_e1, p.k_e2, p.k_e3}
                /\ p.k >= p.k_f /\ p.k >= p.k_e1
                /\ p.k >= p.k_e2 /\ p.k >= p.k_e3
                /\ DOMAIN p.faceGrid
                     = { rc \in (0..p.k) \X (0..p.k) : rc[2] <= rc[1] }
                /\ 2 * Cardinality(DOMAIN p.faceGrid)
                     = (p.k + 1) * (p.k + 2)
                /\ tris <= p.k * p.k
                /\ (p.k_e1 = p.k /\ p.k_e2 = p.k /\ p.k_e3 = p.k)
                      => tris = p.k * p.k
    /\ pc = "subdivided" =>
        LET bs == Max(1, Min(5, IF props.minDetail = 0 THEN 1
                                ELSE props.minDetail))
        IN  /\ bs \in 1..5
            /\ Len(passFaces) = bs * bs
            /\ \A a \in 1..Len(passFaces), b \in 1..Len(passFaces) :
                  passFaces[a] = passFaces[b] => a = b

\* a patch of resolution 3 on all edges with its 9 triangles
C22_Witness ==
    /\ pc = "done"
    /\ \E n \in 1..Len(patches) :
        /\ patches[n].k = 3
        /\ patches[n].k_e1 = 3 /\ patches[n].k_e2 = 3 /\ patches[n].k_e3 = 3
        /\ patches[n].last - patches[n].first = 27
        /\ Cardinality(DOMAIN patches[n].faceGrid) = 10

(***************************************************************************)
(* sampleHeight on its own: any image size, any finite u and v.            *)
(***************************************************************************)

\* the sides of the images followed, and u, v as multiples of 1 / SampleDen
MaxSide == 3
SampleDen == 4

\* an image of w x h pixels whose bytes differ from one another
SampleMap(w, h) ==
    [width |-> w, height |-> h,
     data |-> [i \in 1..(w * h * 4) |-> (i * 61) % 256]]

\* u and v from -1/2 to 3/2
SampleCoords == { <<n, SampleDen>> :
                    n \in (0 - SampleDen \div 2)..(SampleDen + SampleDen \div 2) }

InitSample ==
    /\ pc = "input"
    /\ props = DefaultProps
    /\ heightMapUrl = NoUrl
    /\ heightMapLoads = {}
    /\ heightMapData \in { SampleMap(w, h) : w \in 1..MaxSide,
                                              h \in 1..MaxSide }
    /\ sample \in [kind : {"sample"}, u : SampleCoords, v : SampleCoords,
                   x : {0}, y : {0}, index : {0}, value : {<<0, 1>>}]
    /\ IdleHome
    /\ IdleLod /\ IdlePass /\ IdleQuad /\ IdleTile
    /\ IdleRegen /\ interned = <<>>

\* one call sampleHeight(u, v, heightMapData)
SampleHeight ==
    /\ pc = "input"
    /\ sample.kind = "sample"
    /\ pc' = "done"
    /\ LET px == samplePixel(sample.u, sample.v, heightMapData)
       IN  sample' = [sample EXCEPT
                        !.x = px.x, !.y = px.y, !.index = px.index,
                        !.value = sampleHeight(sample.u, sample.v,
                                               heightMapData)]
    /\ UNCHANGED <<props, lodVars, passVars, quad, tile, hmVars, interned,
                   regenVars, home>>

NextSample == SampleHeight

SpecSample == InitSample /\ [][NextSample]_vars

\* C30: for every image with width >= 1 and height >= 1 and every finite
\* (u, v), also outside [0, 1], sampleHeight reads a pixel with
\* 0 <= x <= width - 1 and 0 <= y <= height - 1, its byte index lies inside
\* the data array, and the value returned is in [0, 1].
C30_InBounds ==
    (pc = "done" /\ sample.kind = "sample") =>
        /\ 0 <= sample.x /\ sample.x <= heightMapData.width - 1
        /\ 0 <= sample.y /\ sample.y <= heightMapData.height - 1
        /\ sample.index >= 0
        /\ sample.index < heightMapData.width * heightMapData.height * 4
        /\ sample.value[2] > 0
        /\ 0 <= sample.value[1] /\ sample.value[1] <= sample.value[2]

\* u above 1 and v below 0 on a 3 x 3 image: the pixel of the last column
\* of the first row
C30_Witness ==
    /\ pc = "done" /\ sample.kind = "sample"
    /\ sample.u[1] > sample.u[2]
    /\ sample.v[1] < 0
    /\ heightMapData.width = 3 /\ heightMapData.height = 3
    /\ sample.x = 2 /\ sample.y = 0
    /\ sample.index = 8

\* ------------------------------------------------------------------------
\* Home and DraggableCapsule: the drag handlers, the position effect and
\* the renders of Home that feed Planet its targetPosition.
\*
\* Positions are vectors of integers in tenths of a world unit.  State set
\* by a pointerdown or pointerup handler is committed before the next
\* event is delivered (React renders discrete events synchronously); state
\* set by a pointermove handler or by an effect is committed by a later
\* render, which may come after further pointermove events.
\* ------------------------------------------------------------------------

\* the most pointer moves of one drag
MaxMoves == 3

\* leva control radius: { value: 10, min: 1, max: 10 }
HomeRadii == 1..10

\* unit vectors the ray of a pointer move can hit the orbit sphere along
Directions == { <<1, 0, 0>>, <<0 - 1, 0, 0>>, <<0, 1, 0>>,
                <<0, 0 - 1, 0>>, <<0, 0, 1>>, <<0, 0, 0 - 1>> }

\* the ray misses the orbit sphere
Miss == <<0, 0, 0>>

\* planetPosition={[0, 0, 0]}
planetPosition == <<0, 0, 0>>

\* orbitRadius = planetRadius + 0.7, in tenths
orbitRadius(planetRadius) == planetRadius * 10 + 7

add(a, b) == <<a[1] + b[1], a[2] + b[2], a[3] + b[3]>>

sub(a, b) == <<a[1] - b[1], a[2] - b[2], a[3] - b[3]>>

multiplyScalar(a, s) == <<a[1] * s, a[2] * s, a[3] * s>>

\* the length of an axis-aligned vector
length(a) == Abs(a[1]) + Abs(a[2]) + Abs(a[3])

normalize(a) ==
    LET l == length(a)
    IN  IF l = 0 THEN a ELSE <<a[1] \div l, a[2] \div l, a[3] \div l>>

\* the position effect's newPos
orbitPosition(h) ==
    add(planetPosition, multiplyScalar(h.direction, orbitRadius(h.radius)))

\* one render of Home and its children: the queued setCapsulePosition is
\* applied; the literal position={[0, 0, 0]} is a new array, so Planet's
\* useMemo runs again; the literal planetPosition={[0, 0, 0]} is a new
\* array, so planetCenter is a new vector and the position effect is
\* scheduled
Commit(h) ==
    [h EXCEPT !.capsulePosition = IF h.queued = <<>> THEN @
                                  ELSE h.queued[1],
              !.queued = <<>>,
              !.render = FALSE,
              !.effect = TRUE,
              !.passes = IF h.isDragging THEN @ + 1 ELSE 0]

\* handlePointerDown: setIsDragging(true); onDragStart()
handlePointerDown(h) ==
    [h EXCEPT !.isDragging = TRUE, !.controlsEnabled = FALSE,
              !.moves = 0, !.passes = 0]

\* handlePointerUp: setIsDragging(false); onDragEnd()
handlePointerUp(h) ==
    [h EXCEPT !.isDragging = FALSE, !.controlsEnabled = TRUE,
              !.moves = 0, !.passes = 0]

\* a pointer-move handler without the isDragging test
handlePointerMoveAlways(h, hit) ==
    IF hit # Miss
    THEN LET intersection ==
                 add(planetPosition,
                     multiplyScalar(hit, orbitRadius(h.radius)))
         IN  [h EXCEPT !.meshPosition = intersection,
                       !.direction = normalize(sub(intersection,
                                                   planetPosition)),
                       !.queued = <<intersection>>,
                       !.render = TRUE,
                       !.moves = @ + 1]
    ELSE h

\* handlePointerMove: only while isDragging, and only when the ray hits
\* the orbit sphere
handlePointerMove(h, hit) ==
    IF h.isDragging /\ hit # Miss
    THEN LET intersection ==
                 add(planetPosition,
                     multiplyScalar(hit, orbitRadius(h.radius)))
         IN  [h EXCEPT !.meshPosition = intersection,
                       !.direction = normalize(sub(intersection,
                                                   planetPosition)),
                       !.queued = <<intersection>>,
                       !.render = TRUE,
                       !.moves = @ + 1]
    ELSE h

\* the position effect: if (meshRef.current && !isDragging)
positionEffect(h) ==
    IF ~h.isDragging
    THEN [h EXCEPT !.meshPosition = orbitPosition(h),
                   !.queued = <<orbitPosition(h)>>,
                   !.render = TRUE,
                   !.effect = FALSE]
    ELSE [h EXCEPT !.effect = FALSE]

\* Home and DraggableCapsule after mounting, the position effect pending
Mounted(r) ==
    [kind |-> "home", radius |-> r,
     isDragging |-> FALSE, controlsEnabled |-> TRUE,
     capsulePosition |-> <<0, 107, 0>>, queued |-> <<>>,
     render |-> FALSE, effect |-> TRUE,
     direction |-> <<0, 1, 0>>, meshPosition |-> <<0, 0, 0>>,
     moves |-> 0, passes |-> 0, last |-> "mount"]

HomeRest ==
    /\ pc = "home"
    /\ props = DefaultProps
    /\ IdleSample
    /\ IdleLod /\ IdlePass /\ IdleQuad /\ IdleTile
    /\ IdleHeight /\ IdleRegen /\ interned = <<>>

InitHome ==
    /\ home \in { Mounted(r) : r \in HomeRadii }
    /\ HomeRest

HomeUnchanged ==
    UNCHANGED <<pc, props, lodVars, passVars, quad, tile, hmVars, interned,
                regenVars, sample>>

PointerDown ==
    /\ pc = "home"
    /\ home' = [Commit(handlePointerDown(home)) EXCEPT !.last = "down"]
    /\ HomeUnchanged

PointerUp ==
    /\ pc = "home"
    /\ home' = [Commit(handlePointerUp(home)) EXCEPT !.last = "up"]
    /\ HomeUnchanged

PointerMove ==
    /\ pc = "home"
    /\ home.moves < MaxMoves
    /\ \E hit \in Directions \cup {Miss} :
           home' = [handlePointerMove(home, hit) EXCEPT !.last = "move"]
    /\ HomeUnchanged

Render ==
    /\ pc = "home"
    /\ home.render
    /\ home' = [Commit(home) EXCEPT !.last = "render"]
    /\ HomeUnchanged

RunEffect ==
    /\ pc = "home"
    /\ home.effect
    /\ home' = [positionEffect(home) EXCEPT !.last = "effect"]
    /\ HomeUnchanged

NextHome == PointerDown \/ PointerUp \/ PointerMove \/ Render \/ RunEffect

SpecHome == InitHome /\ [][NextHome]_vars

\* C29: after any sequence of pointerDown, pointerMove and pointerUp on the
\* capsule, OrbitControls is enabled exactly when the capsule is not being
\* dragged; and a pointerMove received while not dragging changes neither
\* the capsule's position nor its stored direction and issues no
\* onPositionChange.
C29_DragExclusion ==
    /\ [](home.kind = "home" =>
              (home.controlsEnabled <=> ~home.isDragging))
    /\ [][(home'.last = "move" /\ ~home.isDragging) =>
              /\ home'.meshPosition = home.meshPosition
              /\ home'.direction = home.direction
              /\ home'.queued = home.queued
              /\ home'.render = home.render
              /\ home'.capsulePosition = home.capsulePosition]_vars

\* a pointer move after a finished drag to +x, the controls enabled again
C29_Witness ==
    /\ home.kind = "home"
    /\ home.last = "move"
    /\ ~home.isDragging
    /\ home.controlsEnabled
    /\ home.direction = <<1, 0, 0>>
    /\ home.meshPosition = <<107, 0, 0>>

\* C26: while the capsule is dragged, generation is not run once per
\* pointer move: a burst of N consecutive position changes (N >= 2), once
\* rendered, has caused fewer than N generation passes.
C26_Debounced ==
    (home.kind = "home" /\ home.isDragging /\ home.moves >= 2
        /\ ~home.render) =>
        home.passes < home.moves

\* ------------------------------------------------------------------------
\* The idle application: no pointer events, only the renders and effects
\* React has scheduled.  It starts mounted, or after a finished drag that
\* left the capsule along any of the directions.
\* ------------------------------------------------------------------------
Released(r, d) ==
    [Mounted(r) EXCEPT
        !.direction = d,
        !.meshPosition = multiplyScalar(d, orbitRadius(r)),
        !.capsulePosition = multiplyScalar(d, orbitRadius(r)),
        !.last = "up"]

InitIdle ==
    /\ home \in { Mounted(r) : r \in HomeRadii }
                \cup { Released(r, d) : r \in HomeRadii, d \in Directions }
    /\ HomeRest

NextIdle == Render \/ RunEffect

\* React runs every render and every effect it has scheduled
SpecIdle ==
    InitIdle /\ [][NextIdle]_vars /\ WF_vars(Render) /\ WF_vars(RunEffect)

\* C27: with no pointer events and no control changes the render-effect
\* cycle reaches a fixed point: eventually no render and no effect is
\* scheduled any more, so onPositionChange is not called again,
\* capsulePosition stays and Planet does not regenerate.
C27_Quiescence ==
    <>[](home.kind = "home" => (~home.render /\ ~home.effect))

\* C28: for any sequence of heightMapUrl changes and any completion order
\* of the loads, once every pending load has settled heightMapData is the
\* result of the most recently requested URL: null when the current
\* heightMapUrl is absent, and otherwise the image of the current URL, or
\* null if its load failed, never the image of an earlier URL.
C28_LatestWins ==
    (pc = "ready" /\ heightMapLoads = {}) =>
        IF heightMapUrl = NoUrl
        THEN heightMapData = Null
        ELSE heightMapData \in {HeightMapOf[heightMapUrl], Null}

(***************************************************************************)
(* Nesting of the levels of the top face: the hole of a ring against the   *)
(* square the next finer level covers.  Coordinates are grid coordinates   *)
(* of the ring, 0..segments.                                               *)
(***************************************************************************)

\* the triangles of the index buffer of a face, as triples of (x, z)
FaceTriangles ==
    { << GridXZ(quad.segments, quad.indices[3 * j + 1] \div IndexDen),
         GridXZ(quad.segments, quad.indices[3 * j + 2] \div IndexDen),
         GridXZ(quad.segments, quad.indices[3 * j + 3] \div IndexDen) >> :
        j \in 0..((Len(quad.indices) \div 3) - 1) }

Least(S) == CHOOSE m \in S : \A n \in S : m <= n

\* the cells that hold an emitted triangle
DrawnCells ==
    { << Least({tr[1][1], tr[2][1], tr[3][1]}),
         Least({tr[1][2], tr[2][2], tr[3][2]}) >> : tr \in FaceTriangles }

\* the cells inside the stitched border that the ring leaves out
SkippedCells ==
    ((1..(quad.segments - 2)) \X (1..(quad.segments - 2))) \ DrawnCells

\* the next finer level has the scale of the ring divided by lodDelta and
\* the same centre: it covers [lo, hi] x [lo, hi] with
\* lo = segments / 2 - segments / (2 lodDelta),
\* hi = segments / 2 + segments / (2 lodDelta)
FinerOverlaps(x) ==
    /\ 2 * lodDelta * (x + 1) > quad.segments * (lodDelta - 1)
    /\ 2 * lodDelta * x < quad.segments * (lodDelta + 1)

FinerHolds(x) ==
    /\ 2 * lodDelta * x >= quad.segments * (lodDelta - 1)
    /\ 2 * lodDelta * x <= quad.segments * (lodDelta + 1)

\* the ring coordinate x is that of a vertex of the finer level with an
\* even index along its edge: lo + m for a whole number m
FinerAnchor(x) ==
    /\ FinerHolds(x)
    /\ (2 * lodDelta * x - quad.segments * (lodDelta - 1))
           % (2 * lodDelta) = 0

\* the grid vertices on the edge of the hole
InnerBoundary ==
    { v \in (1..(quad.segments - 1)) \X (1..(quad.segments - 1)) :
        LET around == { <<v[1] - dx, v[2] - dz>> : dx \in {0, 1},
                                                   dz \in {0, 1} }
        IN  /\ around \cap SkippedCells # {}
            /\ around \ SkippedCells # {} }

RingDone ==
    /\ pc = "done" /\ quad.kind = "face"
    /\ quad.face = "py" /\ quad.level >= 1

\* C23: for every ring level i >= 1 of the top face and every selectable
\* segments, the cells the ring's hole skips are exactly the square the
\* next finer level i - 1 covers (no gap, no overlap), and the vertices on
\* the edge of the hole coincide with the even-indexed perimeter vertices
\* of the finer level.
C23_Nesting ==
    RingDone =>
        /\ \A c \in (1..(quad.segments - 2)) \X (1..(quad.segments - 2)) :
               /\ c \in SkippedCells
                    <=> (FinerOverlaps(c[1]) /\ FinerOverlaps(c[2]))
               /\ c \in SkippedCells
                    => /\ FinerHolds(c[1]) /\ FinerHolds(c[1] + 1)
                       /\ FinerHolds(c[2]) /\ FinerHolds(c[2] + 1)
        /\ \A v \in InnerBoundary :
               FinerAnchor(v[1]) /\ FinerAnchor(v[2])

(***************************************************************************)
(* slerp and projectToSphere in exact arithmetic.  A number is a reduced   *)
(* fraction <<n, d>> with d > 0, a vector a triple of fractions.  Angles   *)
(* are whole multiples of the angle phi with cos phi = 4/5 and             *)
(* sin phi = 3/5, whose sines and cosines are fractions; the inputs are    *)
(* chosen so that every square root taken is the root of a square.         *)
(***************************************************************************)

\* unit vectors at the angles 0..MaxAngle times phi
MaxAngle == 3
\* projectToSphere: radius in 1..MaxProjRadius, u and v multiples of
\* radius / ProjDen
MaxProjRadius == 3
ProjDen == 12

frac(n, d) ==
    LET g == GCD(Abs(n), Abs(d))
    IN  IF d < 0 THEN <<(0 - n) \div g, (0 - d) \div g>>
        ELSE <<n \div g, d \div g>>

fmul(a, b) == frac(a[1] * b[1], a[2] * b[2])

fdiv(a, b) == frac(a[1] * b[2], a[2] * b[1])

fadd(a, b) ==
    LET l == (a[2] \div GCD(a[2], b[2])) * b[2]
    IN  frac(a[1] * (l \div a[2]) + b[1] * (l \div b[2]), l)

fneg(a) == <<0 - a[1], a[2]>>

fsub(a, b) == fadd(a, fneg(b))

fless(a, b) == a[1] * b[2] < b[1] * a[2]

\* Math.sqrt of the square of a fraction
fsqrt(a) == <<ISqrt(a[1]), ISqrt(a[2])>>

whole(n) == <<n, 1>>

\* cos(k phi) and sin(k phi) by the addition formulas
RECURSIVE cosNum(_)
RECURSIVE sinNum(_)
cosNum(k) == IF k = 0 THEN 1 ELSE 4 * cosNum(k - 1) - 3 * sinNum(k - 1)

sinNum(k) == IF k = 0 THEN 0 ELSE 3 * cosNum(k - 1) + 4 * sinNum(k - 1)

cos(k) == frac(cosNum(k), Pow(5, k))

\* Math.sin of the angle k phi
sin(k) == frac(sinNum(k), Pow(5, k))

\* Math.acos of the cosine of an angle in [0, pi], in units of phi
acos(c) == CHOOSE k \in 0..MaxAngle : cos(k) = c

\* Vector3 methods
dot(a, b) == fadd(fadd(fmul(a[1], b[1]), fmul(a[2], b[2])),
                  fmul(a[3], b[3]))

lengthSq(a) == dot(a, a)

scale(a, f) == <<fmul(a[1], f), fmul(a[2], f), fmul(a[3], f)>>

addScaledVector(acc, a, f) ==
    <<fadd(acc[1], fmul(a[1], f)), fadd(acc[2], fmul(a[2], f)),
      fadd(acc[3], fmul(a[3], f))>>

\* divideScalar(length() || 1)
normalized(a) ==
    LET l == fsqrt(lengthSq(a))
    IN  IF l[1] = 0 THEN a ELSE scale(a, fdiv(whole(1), l))

\* v1 + (v2 - v1) * t
lerp(a, b, tf) ==
    <<fadd(a[1], fmul(fsub(b[1], a[1]), tf)),
      fadd(a[2], fmul(fsub(b[2], a[2]), tf)),
      fadd(a[3], fmul(fsub(b[3], a[3]), tf))>>

ZeroVector == <<whole(0), whole(0), whole(0)>>

\* t * theta for theta = k phi, in units of phi
angleTimes(tf, k) == (tf[1] * k) \div tf[2]

\* slerp with the weights sin((1 - t) theta) and sin(t theta) not divided
\* by sin(theta)
slerpUnscaled(v1, v2, tf) ==
    LET d == dot(v1, v2)
        clamped == IF fless(d, whole(0 - 1)) THEN whole(0 - 1)
                   ELSE IF fless(whole(1), d) THEN whole(1) ELSE d
    IN  IF fless(<<9999, 10000>>, clamped)
        THEN normalized(lerp(v1, v2, tf))
        ELSE LET theta == acos(clamped)
                 a == sin(theta - angleTimes(tf, theta))
                 b == sin(angleTimes(tf, theta))
             IN  addScaledVector(addScaledVector(ZeroVector, v1, a), v2, b)

slerpExact(v1, v2, tf) ==
    LET d == dot(v1, v2)
        clamped == IF fless(d, whole(0 - 1)) THEN whole(0 - 1)
                   ELSE IF fless(whole(1), d) THEN whole(1) ELSE d
    IN  IF fless(<<9999, 10000>>, clamped)
        THEN normalized(lerp(v1, v2, tf))
        ELSE LET theta == acos(clamped)
                 sinTheta == sin(theta)
                 a == fdiv(sin(theta - angleTimes(tf, theta)), sinTheta)
                 b == fdiv(sin(angleTimes(tf, theta)), sinTheta)
             IN  addScaledVector(addScaledVector(ZeroVector, v1, a), v2, b)

CubeFaces == {"px", "nx", "py", "ny", "pz", "nz"}

projectToSphere(u, v, radius, face) ==
    LET r == whole(radius)
        vec == CASE face = "py" -> <<u, r, v>>
                 [] face = "ny" -> <<u, fneg(r), fneg(v)>>
                 [] face = "px" -> <<r, fneg(v), fneg(u)>>
                 [] face = "nx" -> <<fneg(r), fneg(v), u>>
                 [] face = "pz" -> <<u, fneg(v), r>>
                 [] face = "nz" -> <<fneg(u), fneg(v), fneg(r)>>
    IN  scale(normalized(vec), r)

\* the unit vector at angle k phi in the plane of two of the axes
OnCircle(k, plane) ==
    CASE plane = "xy" -> <<cos(k), sin(k), whole(0)>>
      [] plane = "yz" -> <<whole(0), cos(k), sin(k)>>
      [] plane = "zx" -> <<sin(k), whole(0), cos(k)>>

\* pairs of unit vectors i phi and j phi apart on a great circle, and the
\* values of t for which t * theta is a whole multiple of phi
SlerpInputs ==
    { [kind |-> "slerp", v1 |-> OnCircle(c[1], c[3]),
       v2 |-> OnCircle(c[2], c[3]), t |-> frac(c[4], c[5]),
       out |-> ZeroVector] :
        c \in { e \in (0..MaxAngle) \X (0..MaxAngle) \X {"xy", "yz", "zx"}
                       \X (0..MaxAngle) \X (1..MaxAngle) :
                  /\ e[4] <= e[5]
                  /\ (e[4] * Abs(e[1] - e[2])) % e[5] = 0 } }

\* face points (u, v) in [-radius, radius] whose distance from the centre
\* is a fraction
ProjectInputs ==
    { [kind |-> "project", u |-> frac(c[1] * c[3], ProjDen),
       v |-> frac(c[2] * c[3], ProjDen), radius |-> c[3], face |-> c[4],
       out |-> ZeroVector] :
        c \in { e \in ((0 - ProjDen)..ProjDen) \X ((0 - ProjDen)..ProjDen)
                       \X (1..MaxProjRadius) \X CubeFaces :
                  IsSquare(ProjDen * ProjDen + e[1] * e[1] + e[2] * e[2]) } }

InitUnit ==
    /\ pc = "input"
    /\ props = DefaultProps
    /\ sample \in SlerpInputs \cup ProjectInputs
    /\ IdleHome
    /\ IdleLod /\ IdlePass /\ IdleQuad /\ IdleTile
    /\ IdleHeight /\ IdleRegen /\ interned = <<>>

UnitUnchanged ==
    UNCHANGED <<props, lodVars, passVars, quad, tile, hmVars, interned,
                regenVars, home>>

\* one call slerp(v1, v2, tf)
Slerp ==
    /\ pc = "input"
    /\ sample.kind = "slerp"
    /\ pc' = "done"
    /\ sample' = [sample EXCEPT !.out = slerpExact(sample.v1, sample.v2, sample.t)]
    /\ UnitUnchanged

\* one call projectToSphere(u, v, radius, face)
Project ==
    /\ pc = "input"
    /\ sample.kind = "project"
    /\ pc' = "done"
    /\ sample' = [sample EXCEPT !.out = projectToSphere(
                      sample.u, sample.v, sample.radius, sample.face)]
    /\ UnitUnchanged

NextUnit == Slerp \/ Project

SpecUnit == InitUnit /\ [][NextUnit]_vars

\* C21: every position slerp produces from unit vectors (before radius
\* scaling and displacement) has magnitude 1 within 1e-5, and every
\* position projectToSphere produces has magnitude radius, for every
\* radius > 0.
C21_UnitSphere ==
    /\ (pc = "done" /\ sample.kind = "slerp") =>
           LET m == lengthSq(sample.out)
           IN  Abs(m[1] - m[2]) <= m[2] \div 100000
    /\ (pc = "done" /\ sample.kind = "project") =>
           lengthSq(sample.out) = whole(sample.radius * sample.radius)

\* a slerp a third of the way between two unit vectors 3 phi apart ends on
\* the unit vector at phi
C21_Witness ==
    /\ pc = "done"
    /\ sample.kind = "slerp"
    /\ sample.v1 = OnCircle(0, "xy")
    /\ sample.v2 = OnCircle(3, "xy")
    /\ sample.t = <<1, 3>>
    /\ sample.out = OnCircle(1, "xy")

====
